---- MODULE Spec2Model ----
(***************************************************************************)
(* Match lifecycle, prediction creation and scoring of the sports          *)
(* prediction tracker (services and repositories over three MongoDB        *)
(* collections: matches, predictions, users).                              *)
(*                                                                         *)
(* Every await of a coroutine is a point where another request may run,    *)
(* so each repository call is one step of a client; the code between two   *)
(* awaits belongs to the step of the call that precedes it.                *)
(***************************************************************************)
EXTENDS Integers, Sequences, FiniteSets, TLC

\* ------------------------------------------------------------------ bounds
NumProcs == 2
NumUsers == 2
MaxPreds == 2
MaxScore == 1
MaxGoal == 3
MaxTime == 2
MaxResults == 6
MaxLog == 3
MaxMatches == 2

\* ------------------------------------------------------- program constants
None == -1
EXACT_SCORE == 3
CORRECT_DIFFERENCE == 2
CORRECT_OUTCOME == 1
INCORRECT == 0

\* the calendar in clock ticks
DayTicks == 1
WeekTicks == 2
MonthTicks == 3
YearTicks == 6

Procs == 1..NumProcs
UserIds == 1..NumUsers
PredIds == 1..MaxPreds
MatchIds == {1}
Scores == 0..MaxScore
Goals == 0..MaxGoal
TimeInputs == 0..(MaxTime + 1)

MatchStatus == {"pending", "live", "finished", "cancelled", "postponed"}

VARIABLES
    now,        \* datetime.utcnow()
    matches,    \* the matches collection: id -> document
    preds,      \* the predictions collection: id -> document (st = "live")
    users,      \* the users collection: id -> document
    pc,         \* per client: the await it is suspended at ("idle" = none)
    loc,        \* per client: the local variables of the running coroutine
    res,        \* per client: outcome of the last completed call
    fin_ok,     \* history: matches on which a finish_match call has returned
    pin,        \* arguments of the pure function under test
    pout        \* its result

vars == <<now, matches, preds, users, pc, loc, res, fin_ok, pin, pout>>

\* --------------------------------------------------------- pure functions

\* Prediction.predicted_outcome and the outcome branch of calculate_points
Outcome(h, a) ==
    IF h > a THEN "home_win" ELSE IF h < a THEN "away_win" ELSE "draw"

\* Prediction.predicted_goal_difference
GoalDifference(h, a) == h - a

\* a plausible slip: the outcome-only rule tested before the difference rule
calculate_points_swapped(ph, pa, ah, aa) ==
    IF ph = ah /\ pa = aa THEN EXACT_SCORE
    ELSE IF Outcome(ph, pa) = Outcome(ah, aa) THEN CORRECT_OUTCOME
    ELSE IF Outcome(ph, pa) = Outcome(ah, aa)
            /\ GoalDifference(ph, pa) = GoalDifference(ah, aa)
         THEN CORRECT_DIFFERENCE
    ELSE INCORRECT

\* Prediction.calculate_points (the points component)
calculate_points(ph, pa, ah, aa) ==
    IF ph = ah /\ pa = aa THEN EXACT_SCORE
    ELSE IF Outcome(ph, pa) = Outcome(ah, aa)
            /\ GoalDifference(ph, pa) = GoalDifference(ah, aa)
         THEN CORRECT_DIFFERENCE
    ELSE IF Outcome(ph, pa) = Outcome(ah, aa) THEN CORRECT_OUTCOME
    ELSE INCORRECT

\* Prediction.calculate_points (the breakdown component): the text embeds
\* the matched rule and the four scores, nothing else
Breakdown(ph, pa, ah, aa) == <<calculate_points(ph, pa, ah, aa), ph, pa, ah, aa>>

Max(x, y) == IF x >= y THEN x ELSE y

\* _calculate_streaks: the forward loop, from element i on, with the loop's
\* four running values
RECURSIVE ScanStreaks(_, _, _, _, _, _)
ScanStreaks(results, i, temp_streak, temp_losing, best_streak, worst_streak) ==
    IF i > Len(results) THEN <<best_streak, worst_streak>>
    ELSE IF results[i] = 1
    THEN ScanStreaks(results, i + 1, temp_streak + 1, 0,
                     Max(best_streak, temp_streak + 1), worst_streak)
    ELSE ScanStreaks(results, i + 1, 0, temp_losing + 1,
                     best_streak, Max(worst_streak, temp_losing + 1))

\* _calculate_streaks: the loop over reversed(results), at element i
RECURSIVE CurrentFromEnd(_, _)
CurrentFromEnd(results, i) ==
    IF i = 0 THEN 0
    ELSE IF results[i] = 1 THEN 1 + CurrentFromEnd(results, i - 1)
    ELSE 0

\* a slip: the current streak reported as the best one
calculate_streaks_currentisbest(results) ==
    IF Len(results) = 0 THEN <<0, 0, 0>>
    ELSE LET s == ScanStreaks(results, 1, 0, 0, 0, 0)
         IN  <<s[1], s[1], s[2]>>

\* AnalyticsService._calculate_streaks:
\* (current_streak, best_streak, worst_streak)
calculate_streaks(results) ==
    IF Len(results) = 0 THEN <<0, 0, 0>>
    ELSE LET s == ScanStreaks(results, 1, 0, 0, 0, 0)
         IN  <<CurrentFromEnd(results, Len(results)), s[1], s[2]>>

\* ------------------------------------------------------------- documents

\* Match(...) as created by create_match: pending, unlocked, no result
NewMatch ==
    [status |-> "pending", home_score |-> None, away_score |-> None,
     scheduled_at |-> 1, started_at |-> None, finished_at |-> None,
     cancelled_at |-> None, predictions_locked |-> FALSE,
     total_predictions |-> 0]

\* a slot of the predictions collection that holds no document yet
NoPred ==
    [st |-> "unused", user |-> 0, match |-> 0,
     predicted_home_score |-> 0, predicted_away_score |-> 0,
     is_scored |-> FALSE, points |-> None, points_breakdown |-> <<>>,
     actual_home_score |-> None, actual_away_score |-> None,
     scored_at |-> None]

\* Prediction(user_id, match_id, predicted_home_score, predicted_away_score)
NewPred(u, m, h, a) ==
    [NoPred EXCEPT !.st = "live", !.user = u, !.match = m,
                   !.predicted_home_score = h, !.predicted_away_score = a]

\* User(): active, zeroed denormalized stats
NewUser == [is_active |-> TRUE, total_predictions |-> 0, total_points |-> 0]

\* Match.validate_status_consistency: a finished document without both
\* scores does not validate, so reading it raises
MatchValid(doc) ==
    doc.status = "finished" => (doc.home_score # None /\ doc.away_score # None)

\* Match.validate_status_consistency: what the validated object shows
\* (the stored document is not changed by reading it)
ViewMatch(doc) ==
    [doc EXCEPT
        !.finished_at = IF doc.status = "finished" /\ @ = None THEN now ELSE @,
        !.cancelled_at = IF doc.status = "cancelled" /\ @ = None THEN now ELSE @,
        !.started_at = IF doc.status = "live" /\ @ = None THEN now ELSE @,
        !.predictions_locked = IF doc.status = "live" THEN TRUE ELSE @]

\* Match.is_predictable
is_predictable(mv) ==
    IF mv.predictions_locked THEN FALSE
    ELSE IF mv.status \notin {"pending", "postponed"} THEN FALSE
    ELSE TRUE

\* ---------------------------------------------------------- client state

Loc0 ==
    [op |-> "none", m |-> 0, u |-> 0, p |-> 0, h |-> 0, a |-> 0, t |-> None,
     upd |-> <<>>, cur |-> {}, cnt |-> 0, before |-> <<>>, awarded |-> <<>>,
     args |-> <<>>, stage |-> <<>>, entries |-> <<>>,
     scored |-> {}, todo |-> {}, results |-> {}]

\* before/awarded are history: users' total_points when the call began and
\* the points the call itself wrote onto predictions, per owner (scored, in
\* the locals: the predictions that were unscored when the call's own
\* update reached them); entries is
\* the list a leaderboard call returns; args is history: what a sweep was
\* called with
Result(op, outcome, count) ==
    [op |-> op, outcome |-> outcome, count |-> count,
     before |-> <<>>, awarded |-> <<>>, entries |-> <<>>, args |-> <<>>]

NoRes == Result("none", "none", None)

\* the coroutine of client c suspends at await `label` with locals l
Await(c, label, l) ==
    /\ pc' = [pc EXCEPT ![c] = label]
    /\ loc' = [loc EXCEPT ![c] = l]
    /\ UNCHANGED res

\* the coroutine of client c returns or raises
Return(c, r) ==
    /\ pc' = [pc EXCEPT ![c] = "idle"]
    /\ loc' = [loc EXCEPT ![c] = Loc0]
    /\ res' = [res EXCEPT ![c] = r]

Idle(c) == pc[c] = "idle"

TypeOK ==
    /\ now \in 0..MaxTime
    /\ \A m \in MatchIds : matches[m].status \in MatchStatus
    /\ \A p \in PredIds : preds[p].st \in {"unused", "live", "deleted"}
    /\ \A c \in Procs : res[c].count \in {None} \cup (0..MaxPreds)

Init ==
    /\ now = 0
    /\ matches = [m \in MatchIds |-> NewMatch]
    /\ preds = [p \in PredIds |-> NoPred]
    /\ users = [u \in UserIds |-> NewUser]
    /\ pc = [c \in Procs |-> "idle"]
    /\ loc = [c \in Procs |-> Loc0]
    /\ res = [c \in Procs |-> NoRes]
    /\ fin_ok = {}
    /\ pin = <<0, 0, 0, 0>>
    /\ pout = None

\* ------------------------------------------------- MatchService: start

\* start_match's status guard
CanStart(st) == st \in {"pending", "postponed"}

\* MatchService.start_match up to the await of MatchRepository.start_match
start_match(c, m) ==
    /\ Idle(c)
    /\ UNCHANGED <<now, matches, preds, users, fin_ok, pin, pout>>
    /\ IF m \notin DOMAIN matches
       THEN Return(c, Result("start_match", "MatchNotFoundError", None))
       ELSE IF ~MatchValid(matches[m])
       THEN Return(c, Result("start_match", "ValidationError", None))
       ELSE IF ~CanStart(matches[m].status)
       THEN Return(c, Result("start_match", "InvalidMatchStateError", None))
       ELSE Await(c, "start_write", [Loc0 EXCEPT !.op = "start_match", !.m = m])

\* MatchRepository.start_match: unconditional $set by _id
start_match_write(c) ==
    /\ pc[c] = "start_write"
    /\ LET m == loc[c].m IN
        /\ matches' = [matches EXCEPT ![m] =
                [@ EXCEPT !.status = "live", !.started_at = now,
                          !.predictions_locked = TRUE]]
        /\ Return(c, Result("start_match", "ok", None))
    /\ UNCHANGED <<now, preds, users, fin_ok, pin, pout>>

\* ------------------------------------------------ MatchService: finish

\* a guard that forgets the finished status
CanFinish_cancelledonly(st) == st # "cancelled"

\* finish_match's status guard
CanFinish(st) == st \notin {"finished", "cancelled"}

\* the documents a scoring pass selects: unscored predictions of the match
Unscored(m) ==
    {p \in PredIds : preds[p].st = "live" /\ preds[p].match = m
                      /\ ~preds[p].is_scored}

\* what the cursor hands to the loop: the documents as they were when read
Snapshot(P) ==
    {[id |-> p, user |-> preds[p].user,
      ph |-> preds[p].predicted_home_score,
      pa |-> preds[p].predicted_away_score] : p \in P}

\* the next document of a cursor (natural order = insertion order)
NextDoc(cur) == CHOOSE d \in cur : \A e \in cur : d.id <= e.id

\* the $set of score_predictions_for_match on one document, by _id only
ScoreDoc(doc, d, h, a, at) ==
    IF doc.st # "live" THEN doc
    ELSE [doc EXCEPT !.is_scored = TRUE,
                     !.points = calculate_points(d.ph, d.pa, h, a),
                     !.points_breakdown = Breakdown(d.ph, d.pa, h, a),
                     !.actual_home_score = h,
                     !.actual_away_score = a,
                     !.scored_at = at]

\* MatchService.finish_match up to the await of MatchRepository.set_result
finish_match(c, m, h, a) ==
    /\ Idle(c)
    /\ UNCHANGED <<now, matches, preds, users, fin_ok, pin, pout>>
    /\ IF m \notin DOMAIN matches
       THEN Return(c, Result("finish_match", "MatchNotFoundError", None))
       ELSE IF ~MatchValid(matches[m])
       THEN Return(c, Result("finish_match", "ValidationError", None))
       ELSE IF ~CanFinish(matches[m].status)
       THEN Return(c, Result("finish_match", "InvalidMatchStateError", None))
       ELSE Await(c, "finish_set",
                  [Loc0 EXCEPT !.op = "finish_match", !.m = m, !.h = h, !.a = a,
                      !.before = [u \in UserIds |-> users[u].total_points],
                      !.awarded = [u \in UserIds |-> 0]])

\* MatchRepository.set_result: unconditional $set by _id
finish_match_set_result(c) ==
    /\ pc[c] = "finish_set"
    /\ LET m == loc[c].m IN
        matches' = [matches EXCEPT ![m] =
            [@ EXCEPT !.status = "finished", !.home_score = loc[c].h,
                      !.away_score = loc[c].a, !.finished_at = now,
                      !.predictions_locked = TRUE]]
    /\ Await(c, "score_find", loc[c])
    /\ UNCHANGED <<now, preds, users, fin_ok, pin, pout>>

\* finish_match returns (updated_match, scored_count)
FinishReturn(c, l) ==
    /\ Return(c, [Result("finish_match", "ok", l.cnt)
                    EXCEPT !.before = l.before, !.awarded = l.awarded])
    /\ fin_ok' = fin_ok \cup {l.m}

\* score_match_predictions returns its scored_count: to its caller, or to
\* the loop of score_all_pending_matches, which records a positive count
\* and goes on to its next match or returns the number of recorded matches
ScoreDone(c, l) ==
    IF l.op = "score_match_predictions"
    THEN Return(c, [Result(l.op, "ok", l.cnt)
                      EXCEPT !.before = l.before, !.awarded = l.awarded])
    ELSE LET k == [l EXCEPT !.results =
                        IF l.cnt > 0 THEN @ \cup {l.m} ELSE @]
         IN  IF k.todo = {}
             THEN Return(c, [Result(l.op, "ok", Cardinality(k.results))
                               EXCEPT !.before = l.before,
                                      !.awarded = l.awarded])
             ELSE Await(c, "sa_next", k)

\* what follows score_predictions_for_match in its two callers:
\* finish_match returns; score_match_predictions goes on to the users
AfterScoring(c, l) ==
    IF l.op = "finish_match"
    THEN FinishReturn(c, l)
    ELSE /\ UNCHANGED fin_ok
         /\ IF l.cnt > 0
            THEN Await(c, "sm_list", l)
            ELSE ScoreDone(c, l)

\* score_predictions_for_match: the find of the unscored predictions
score_predictions_for_match_find(c) ==
    /\ pc[c] = "score_find"
    /\ LET l == [loc[c] EXCEPT !.cur = Snapshot(Unscored(loc[c].m)), !.t = now] IN
        IF l.cur = {}
        THEN AfterScoring(c, l)
        ELSE Await(c, "score_loop", l) /\ UNCHANGED fin_ok
    /\ UNCHANGED <<now, matches, preds, users, pin, pout>>

\* score_predictions_for_match: one turn of the loop (one update_one)
score_predictions_for_match_update(c) ==
    /\ pc[c] = "score_loop"
    /\ LET d == NextDoc(loc[c].cur)
           k == calculate_points(d.ph, d.pa, loc[c].h, loc[c].a)
           l == [loc[c] EXCEPT !.cur = @ \ {d}, !.cnt = @ + 1,
                               !.awarded[d.user] = @ + k,
                               !.scored = IF preds[d.id].st = "live"
                                             /\ ~preds[d.id].is_scored
                                          THEN @ \cup {d.id} ELSE @]
       IN
        /\ preds' = [preds EXCEPT ![d.id] =
                        ScoreDoc(@, d, loc[c].h, loc[c].a, loc[c].t)]
        /\ IF l.cur = {}
           THEN AfterScoring(c, l)
           ELSE Await(c, "score_loop", l) /\ UNCHANGED fin_ok
    /\ UNCHANGED <<now, matches, users, pin, pout>>

\* ------------------------------------------------ MatchService: cancel

\* cancel_match's status guard
CanCancel(st) == st # "finished"

\* MatchService.cancel_match up to the await of MatchRepository.cancel_match
cancel_match(c, m) ==
    /\ Idle(c)
    /\ UNCHANGED <<now, matches, preds, users, fin_ok, pin, pout>>
    /\ IF m \notin DOMAIN matches
       THEN Return(c, Result("cancel_match", "MatchNotFoundError", None))
       ELSE IF ~MatchValid(matches[m])
       THEN Return(c, Result("cancel_match", "ValidationError", None))
       ELSE IF ~CanCancel(matches[m].status)
       THEN Return(c, Result("cancel_match", "InvalidMatchStateError", None))
       ELSE Await(c, "cancel_write", [Loc0 EXCEPT !.op = "cancel_match", !.m = m])

\* MatchRepository.cancel_match: unconditional $set by _id
cancel_match_write(c) ==
    /\ pc[c] = "cancel_write"
    /\ LET m == loc[c].m IN
        /\ matches' = [matches EXCEPT ![m] =
                [@ EXCEPT !.status = "cancelled", !.cancelled_at = now,
                          !.predictions_locked = TRUE]]
        /\ Return(c, Result("cancel_match", "ok", None))
    /\ UNCHANGED <<now, preds, users, fin_ok, pin, pout>>

\* ---------------------------------------------- MatchService: postpone

\* postpone_match's status guard
CanPostpone(st) == st \notin {"finished", "cancelled"}

\* MatchService.postpone_match up to the await of the repository call;
\* t = None is a call without a new scheduled time
postpone_match(c, m, t) ==
    /\ Idle(c)
    /\ UNCHANGED <<now, matches, preds, users, fin_ok, pin, pout>>
    /\ IF m \notin DOMAIN matches
       THEN Return(c, Result("postpone_match", "MatchNotFoundError", None))
       ELSE IF ~MatchValid(matches[m])
       THEN Return(c, Result("postpone_match", "ValidationError", None))
       ELSE IF ~CanPostpone(matches[m].status)
       THEN Return(c, Result("postpone_match", "InvalidMatchStateError", None))
       ELSE Await(c, "postpone_write",
                  [Loc0 EXCEPT !.op = "postpone_match", !.m = m, !.t = t])

\* a postponement that reopens predictions whether or not a time is given
postpone_match_write_reopen(c) ==
    /\ pc[c] = "postpone_write"
    /\ LET m == loc[c].m
           t == loc[c].t
       IN
        /\ matches' = [matches EXCEPT ![m] =
                [@ EXCEPT !.status = "postponed",
                          !.scheduled_at = IF t # None THEN t ELSE @,
                          !.predictions_locked = FALSE]]
        /\ Return(c, Result("postpone_match", "ok", None))
    /\ UNCHANGED <<now, preds, users, fin_ok, pin, pout>>

\* MatchRepository.postpone_match: unconditional $set by _id
postpone_match_write(c) ==
    /\ pc[c] = "postpone_write"
    /\ LET m == loc[c].m
           t == loc[c].t
       IN
        /\ matches' = [matches EXCEPT ![m] =
                [@ EXCEPT !.status = "postponed",
                          !.scheduled_at = IF t # None THEN t ELSE @,
                          !.predictions_locked =
                              IF t # None /\ t > now THEN FALSE ELSE @]]
        /\ Return(c, Result("postpone_match", "ok", None))
    /\ UNCHANGED <<now, preds, users, fin_ok, pin, pout>>

\* ------------------------------------- MatchService: lock management

\* MatchService.lock_predictions / MatchRepository.lock_predictions: an
\* update_one by _id; the call returns modified_count > 0, which is False
\* when the id matches no document
lock_predictions(c, m) ==
    /\ Idle(c)
    /\ IF m \notin DOMAIN matches
       THEN /\ UNCHANGED matches
            /\ Return(c, Result("lock_predictions", "False", None))
       ELSE /\ matches' = [matches EXCEPT ![m].predictions_locked = TRUE]
            /\ Return(c, Result("lock_predictions", "ok", None))
    /\ UNCHANGED <<now, preds, users, fin_ok, pin, pout>>

\* unlock_predictions' status guard
CanUnlock(st) == st \in {"pending", "postponed"}

\* MatchService.unlock_predictions up to the await of the repository call
unlock_predictions(c, m) ==
    /\ Idle(c)
    /\ UNCHANGED <<now, matches, preds, users, fin_ok, pin, pout>>
    /\ IF m \notin DOMAIN matches
       THEN Return(c, Result("unlock_predictions", "MatchNotFoundError", None))
       ELSE IF ~MatchValid(matches[m])
       THEN Return(c, Result("unlock_predictions", "ValidationError", None))
       ELSE IF ~CanUnlock(matches[m].status)
       THEN Return(c, Result("unlock_predictions", "InvalidMatchStateError",
                             None))
       ELSE Await(c, "unlock_write",
                  [Loc0 EXCEPT !.op = "unlock_predictions", !.m = m])

\* MatchRepository.unlock_predictions: unconditional $set by _id
unlock_predictions_write(c) ==
    /\ pc[c] = "unlock_write"
    /\ matches' = [matches EXCEPT ![loc[c].m].predictions_locked = FALSE]
    /\ Return(c, Result("unlock_predictions", "ok", None))
    /\ UNCHANGED <<now, preds, users, fin_ok, pin, pout>>

\* a filter that does not look at the lock
StartingSoon_anylock(doc, cutoff) ==
    /\ doc.status \in {"pending", "postponed"}
    /\ doc.scheduled_at <= cutoff

\* the filter of lock_all_starting_soon
StartingSoon(doc, cutoff) ==
    /\ doc.status \in {"pending", "postponed"}
    /\ doc.predictions_locked = FALSE
    /\ doc.scheduled_at <= cutoff

\* history: the count the client's previous call returned when that call
\* was the same sweep at the same time, None otherwise
RepeatOf(c, minutes_before) ==
    IF /\ res[c].op = "auto_lock_starting_matches"
       /\ res[c].args.minutes_before = minutes_before
       /\ res[c].args.at = now
    THEN res[c].count
    ELSE None

\* MatchService.auto_lock_starting_matches / lock_all_starting_soon
auto_lock_starting_matches(c, minutes_before) ==
    /\ Idle(c)
    /\ LET hit == {m \in DOMAIN matches :
                     StartingSoon(matches[m], now + minutes_before)}
       IN
        /\ matches' = [m \in DOMAIN matches |->
                IF m \in hit
                THEN [matches[m] EXCEPT !.predictions_locked = TRUE]
                ELSE matches[m]]
        /\ Return(c, [Result("auto_lock_starting_matches", "ok",
                             Cardinality(hit))
                        EXCEPT !.args = [minutes_before |-> minutes_before,
                                         at |-> now,
                                         repeat |-> RepeatOf(c, minutes_before)]])
    /\ UNCHANGED <<now, preds, users, fin_ok, pin, pout>>

\* --------------------------------------- MatchService: update, reschedule

\* a guard that, like reschedule_match's own, forgets the cancelled status
CanUpdate_finishedonly(st) == st # "finished"

\* update_match's status guard
CanUpdate(st) == st \notin {"finished", "cancelled"}

\* the MatchUpdate payloads exercised: only the fields that are set
UpdateInputs ==
    {[status |-> s] : s \in MatchStatus}
    \cup {[status |-> "finished", home_score |-> h, away_score |-> 0] : h \in Scores}
    \cup {[predictions_locked |-> b] : b \in BOOLEAN}
    \cup {[scheduled_at |-> t] : t \in TimeInputs}

\* {"$set": update_data}
ApplySet(doc, upd) ==
    [f \in DOMAIN doc |-> IF f \in DOMAIN upd THEN upd[f] ELSE doc[f]]

\* MatchService.update_match up to the await of update_by_id
UpdateCheck(c, op, m, data) ==
    IF m \notin DOMAIN matches
    THEN Return(c, Result(op, "MatchNotFoundError", None))
    ELSE IF ~MatchValid(matches[m])
    THEN Return(c, Result(op, "ValidationError", None))
    ELSE IF ~CanUpdate(matches[m].status)
    THEN Return(c, Result(op, "InvalidMatchStateError", None))
    ELSE IF "scheduled_at" \in DOMAIN data /\ data.scheduled_at <= now
    THEN Return(c, Result(op, "MatchServiceError", None))
    ELSE Await(c, "update_write", [Loc0 EXCEPT !.op = op, !.m = m, !.upd = data])

\* MatchService.update_match called directly
update_match(c, m, data) ==
    /\ Idle(c)
    /\ UpdateCheck(c, "update_match", m, data)
    /\ UNCHANGED <<now, matches, preds, users, fin_ok, pin, pout>>

\* BaseRepository.update_by_id on matches, then Match.model_validate
update_match_write(c) ==
    /\ pc[c] = "update_write"
    /\ LET m == loc[c].m
           doc == ApplySet(matches[m], loc[c].upd)
       IN
        /\ matches' = [matches EXCEPT ![m] = doc]
        /\ Return(c, Result(loc[c].op,
                            IF MatchValid(doc) THEN "ok" ELSE "ValidationError",
                            None))
    /\ UNCHANGED <<now, preds, users, fin_ok, pin, pout>>

\* reschedule_match's own status guard
CanReschedule(st) == st \notin {"finished", "live"}

\* MatchService.reschedule_match up to the get_match of update_match
reschedule_match(c, m, t) ==
    /\ Idle(c)
    /\ UNCHANGED <<now, matches, preds, users, fin_ok, pin, pout>>
    /\ IF t <= now
       THEN Return(c, Result("reschedule_match", "MatchServiceError", None))
       ELSE IF m \notin DOMAIN matches
       THEN Return(c, Result("reschedule_match", "MatchNotFoundError", None))
       ELSE IF ~MatchValid(matches[m])
       THEN Return(c, Result("reschedule_match", "ValidationError", None))
       ELSE IF ~CanReschedule(matches[m].status)
       THEN Return(c, Result("reschedule_match", "InvalidMatchStateError",
                             None))
       ELSE Await(c, "update_get",
                  [Loc0 EXCEPT !.op = "reschedule_match", !.m = m,
                      !.upd = [scheduled_at |-> t, status |-> "pending",
                               predictions_locked |-> FALSE]])

\* reschedule_match: the update_match it ends with
reschedule_match_update(c) ==
    /\ pc[c] = "update_get"
    /\ UpdateCheck(c, "reschedule_match", loc[c].m, loc[c].upd)
    /\ UNCHANGED <<now, matches, preds, users, fin_ok, pin, pout>>

\* -------------------------------------------------------- UserService

\* User's field constraints (ge=0 on both counters): a document that
\* breaks them does not validate, so reading it raises
UserValid(doc) == doc.total_predictions >= 0 /\ doc.total_points >= 0

\* UserRepository.increment_stats: $inc of the two counters
increment_stats(doc, predictions_delta, points_delta) ==
    [doc EXCEPT !.total_predictions = @ + predictions_delta,
                !.total_points = @ + points_delta]

\* UserService.deactivate_user / UserRepository.deactivate_user
deactivate_user(c, u) ==
    /\ Idle(c)
    /\ IF u \notin DOMAIN users
       THEN /\ UNCHANGED users
            /\ Return(c, Result("deactivate_user", "UserNotFoundError", None))
       ELSE /\ users' = [users EXCEPT ![u].is_active = FALSE]
            /\ Return(c, Result("deactivate_user",
                                IF UserValid(users[u]) THEN "ok"
                                ELSE "ValidationError",
                                None))
    /\ UNCHANGED <<now, matches, preds, fin_ok, pin, pout>>

\* UserService.activate_user / UserRepository.activate_user
activate_user(c, u) ==
    /\ Idle(c)
    /\ IF u \notin DOMAIN users
       THEN /\ UNCHANGED users
            /\ Return(c, Result("activate_user", "UserNotFoundError", None))
       ELSE /\ users' = [users EXCEPT ![u].is_active = TRUE]
            /\ Return(c, Result("activate_user",
                                IF UserValid(users[u]) THEN "ok"
                                ELSE "ValidationError",
                                None))
    /\ UNCHANGED <<now, matches, preds, fin_ok, pin, pout>>

\* ------------------------------------------ PredictionService: create

\* get_by_user_and_match: is there a prediction of user u for match m
HasPrediction(u, m) ==
    \E p \in PredIds :
        preds[p].st = "live" /\ preds[p].user = u /\ preds[p].match = m

\* idx_predictions_user_match_unique ignored: every insert is accepted
UniqueFree_noindex(u, m) == TRUE

\* idx_predictions_user_match_unique (unique=True): the insert is accepted
\* only when no document has the same (user_id, match_id)
UniqueFree(u, m) == ~HasPrediction(u, m)

\* the _id of the next inserted prediction (ObjectIds are never reused)
FreshId == CHOOSE p \in PredIds :
    preds[p].st = "unused" /\ \A q \in PredIds : preds[q].st = "unused" => p <= q

\* creations that have not reached their insert yet
Creating == {d \in Procs : pc[d] \in {"cp_match", "cp_exist", "cp_insert"}}

\* the error a rejected insert surfaces as: pymongo's DuplicateKeyError is
\* raised by insert_one and caught nowhere
InsertRejected == "DuplicateKeyError"

\* create_prediction: the user lookup and its checks
create_prediction(c, u, m, h, a) ==
    /\ Idle(c)
    /\ Cardinality({p \in PredIds : preds[p].st = "unused"})
            > Cardinality(Creating)
    /\ UNCHANGED <<now, matches, preds, users, fin_ok, pin, pout>>
    /\ IF u \notin DOMAIN users
       THEN Return(c, Result("create_prediction", "PredictionNotAllowedError",
                             None))
       ELSE IF ~UserValid(users[u])
       THEN Return(c, Result("create_prediction", "ValidationError", None))
       ELSE IF ~users[u].is_active
       THEN Return(c, Result("create_prediction", "PredictionNotAllowedError",
                             None))
       ELSE Await(c, "cp_match",
                  [Loc0 EXCEPT !.op = "create_prediction", !.u = u, !.m = m,
                               !.h = h, !.a = a])

\* create_prediction: the match lookup and its checks
create_prediction_match(c) ==
    /\ pc[c] = "cp_match"
    /\ UNCHANGED <<now, matches, preds, users, fin_ok, pin, pout>>
    /\ LET m == loc[c].m
           mv == ViewMatch(matches[m])
       IN
        IF m \notin DOMAIN matches
        THEN Return(c, Result("create_prediction", "PredictionNotAllowedError",
                              None))
        ELSE IF ~MatchValid(matches[m])
        THEN Return(c, Result("create_prediction", "ValidationError",
                              None))
        ELSE IF mv.predictions_locked
        THEN Return(c, Result("create_prediction", "PredictionNotAllowedError",
                              None))
        ELSE IF mv.status \notin {"pending", "postponed"}
        THEN Return(c, Result("create_prediction", "PredictionNotAllowedError",
                              None))
        ELSE Await(c, "cp_exist", loc[c])

\* a creation that leaves the duplicate to the insert
create_prediction_existing_nocheck(c) ==
    /\ pc[c] = "cp_exist"
    /\ UNCHANGED <<now, matches, preds, users, fin_ok, pin, pout>>
    /\ Await(c, "cp_insert", loc[c])

\* create_prediction: the existing-prediction pre-check
create_prediction_existing(c) ==
    /\ pc[c] = "cp_exist"
    /\ UNCHANGED <<now, matches, preds, users, fin_ok, pin, pout>>
    /\ IF HasPrediction(loc[c].u, loc[c].m)
       THEN Return(c, Result("create_prediction", "DuplicatePredictionError",
                             None))
       ELSE Await(c, "cp_insert", loc[c])

\* PredictionRepository.create_prediction: insert_one
create_prediction_insert(c) ==
    /\ pc[c] = "cp_insert"
    /\ UNCHANGED <<now, matches, users, fin_ok, pin, pout>>
    /\ IF UniqueFree(loc[c].u, loc[c].m)
       THEN /\ preds' = [preds EXCEPT ![FreshId] =
                    NewPred(loc[c].u, loc[c].m, loc[c].h, loc[c].a)]
            /\ Await(c, "cp_incmatch", [loc[c] EXCEPT !.p = FreshId])
       ELSE /\ UNCHANGED preds
            /\ Return(c, Result("create_prediction", InsertRejected,
                                None))

\* MatchRepository.increment_prediction_count
create_prediction_count(c) ==
    /\ pc[c] = "cp_incmatch"
    /\ matches' = [matches EXCEPT ![loc[c].m].total_predictions = @ + 1]
    /\ Await(c, "cp_incuser", loc[c])
    /\ UNCHANGED <<now, preds, users, fin_ok, pin, pout>>

\* create_prediction: increment_stats(user, predictions_delta=1), return
create_prediction_stats(c) ==
    /\ pc[c] = "cp_incuser"
    /\ users' = [users EXCEPT ![loc[c].u] = increment_stats(@, 1, 0)]
    /\ Return(c, Result("create_prediction", "ok", None))
    /\ UNCHANGED <<now, matches, preds, fin_ok, pin, pout>>

\* ------------------------------------------ PredictionService: update

\* update_prediction: the prediction lookup and its checks
update_prediction(c, p, u, h, a) ==
    /\ Idle(c)
    /\ preds[p].st # "unused"
    /\ UNCHANGED <<now, matches, preds, users, fin_ok, pin, pout>>
    /\ IF preds[p].st # "live"
       THEN Return(c, Result("update_prediction", "PredictionNotFoundError",
                             None))
       ELSE IF preds[p].user # u
       THEN Return(c, Result("update_prediction", "PredictionNotAllowedError",
                             None))
       ELSE IF preds[p].is_scored
       THEN Return(c, Result("update_prediction", "PredictionNotAllowedError",
                             None))
       ELSE Await(c, "up_match",
                  [Loc0 EXCEPT !.op = "update_prediction", !.p = p, !.u = u,
                      !.m = preds[p].match, !.h = h, !.a = a])

\* update_prediction: the match lookup; only the lock flag is looked at
update_prediction_match(c) ==
    /\ pc[c] = "up_match"
    /\ UNCHANGED <<now, matches, preds, users, fin_ok, pin, pout>>
    /\ IF ~MatchValid(matches[loc[c].m])
       THEN Return(c, Result("update_prediction", "ValidationError",
                             None))
       ELSE IF ViewMatch(matches[loc[c].m]).predictions_locked
       THEN Return(c, Result("update_prediction", "PredictionNotAllowedError",
                             None))
       ELSE Await(c, "up_write", loc[c])

\* the filter of PredictionRepository.update_prediction
UpdateFilter(doc) == doc.st = "live" /\ doc.is_scored = FALSE

\* PredictionRepository.update_prediction: find_one_and_update
update_prediction_write(c) ==
    /\ pc[c] = "up_write"
    /\ UNCHANGED <<now, matches, users, fin_ok, pin, pout>>
    /\ LET p == loc[c].p IN
        IF UpdateFilter(preds[p])
        THEN /\ preds' = [preds EXCEPT ![p] =
                    [@ EXCEPT !.predicted_home_score =
                                  IF loc[c].h # None THEN loc[c].h ELSE @,
                              !.predicted_away_score =
                                  IF loc[c].a # None THEN loc[c].a ELSE @]]
             /\ Return(c, Result("update_prediction", "ok", None))
        ELSE /\ UNCHANGED preds
             /\ Return(c, Result("update_prediction", "PredictionNotFoundError",
                                 None))

\* ------------------------------------------ PredictionService: delete

\* delete_prediction: the prediction lookup and its checks
delete_prediction(c, p, u) ==
    /\ Idle(c)
    /\ preds[p].st # "unused"
    /\ UNCHANGED <<now, matches, preds, users, fin_ok, pin, pout>>
    /\ IF preds[p].st # "live"
       THEN Return(c, Result("delete_prediction", "PredictionNotFoundError",
                             None))
       ELSE IF preds[p].user # u
       THEN Return(c, Result("delete_prediction", "PredictionNotAllowedError",
                             None))
       ELSE IF preds[p].is_scored
       THEN Return(c, Result("delete_prediction", "PredictionNotAllowedError",
                             None))
       ELSE Await(c, "dp_delete",
                  [Loc0 EXCEPT !.op = "delete_prediction", !.p = p, !.u = u,
                               !.m = preds[p].match])

\* BaseRepository.delete_by_id on predictions
delete_prediction_delete(c) ==
    /\ pc[c] = "dp_delete"
    /\ UNCHANGED <<now, matches, users, fin_ok, pin, pout>>
    /\ IF preds[loc[c].p].st = "live"
       THEN /\ preds' = [preds EXCEPT ![loc[c].p].st = "deleted"]
            /\ Await(c, "dp_decmatch", loc[c])
       ELSE /\ UNCHANGED preds
            /\ Return(c, Result("delete_prediction", "ok", 0))

\* MatchRepository.decrement_prediction_count: guarded by total > 0
delete_prediction_count(c) ==
    /\ pc[c] = "dp_decmatch"
    /\ matches' = [matches EXCEPT ![loc[c].m].total_predictions =
                        IF @ > 0 THEN @ - 1 ELSE @]
    /\ Await(c, "dp_decuser", loc[c])
    /\ UNCHANGED <<now, preds, users, fin_ok, pin, pout>>

\* delete_prediction: increment_stats(user, predictions_delta=-1), return;
\* the updated user is validated when it is read back
delete_prediction_stats(c) ==
    /\ pc[c] = "dp_decuser"
    /\ users' = [users EXCEPT ![loc[c].u] = increment_stats(@, -1, 0)]
    /\ IF loc[c].u \in DOMAIN users /\ ~UserValid(users'[loc[c].u])
       THEN Return(c, Result("delete_prediction", "ValidationError", None))
       ELSE Return(c, Result("delete_prediction", "ok", 1))
    /\ UNCHANGED <<now, matches, preds, fin_ok, pin, pout>>

\* ----------------------------- PredictionService: score_match_predictions

\* score_match_predictions: the match lookup and its checks
score_match_predictions(c, m) ==
    /\ Idle(c)
    /\ UNCHANGED <<now, matches, preds, users, fin_ok, pin, pout>>
    /\ IF m \notin DOMAIN matches
       THEN Return(c, Result("score_match_predictions", "PredictionServiceError",
                             None))
       ELSE IF ~MatchValid(matches[m])
       THEN Return(c, Result("score_match_predictions", "ValidationError",
                             None))
       ELSE IF matches[m].status # "finished"
       THEN Return(c, Result("score_match_predictions", "PredictionServiceError",
                             None))
       ELSE Await(c, "score_find",
                  [Loc0 EXCEPT !.op = "score_match_predictions", !.m = m,
                      !.h = matches[m].home_score, !.a = matches[m].away_score,
                      !.before = [u \in UserIds |-> users[u].total_points],
                      !.awarded = [u \in UserIds |-> 0]])

\* score_match_predictions: get_match_predictions, keeping the documents
\* that are scored and carry points
score_match_predictions_list(c) ==
    /\ pc[c] = "sm_list"
    /\ UNCHANGED <<now, matches, preds, users, fin_ok, pin, pout>>
    /\ LET l == [loc[c] EXCEPT !.cur =
                    {[id |-> p, user |-> preds[p].user,
                      points |-> preds[p].points] :
                        p \in {q \in PredIds : /\ preds[q].st = "live"
                                                /\ preds[q].match = loc[c].m
                                                /\ preds[q].is_scored
                                                /\ preds[q].points # None}}]
       IN IF l.cur = {}
          THEN ScoreDone(c, l)
          ELSE Await(c, "sm_inc", l)

\* score_match_predictions: increment_stats(pred.user_id, points_delta)
score_match_predictions_stats(c) ==
    /\ pc[c] = "sm_inc"
    /\ LET d == NextDoc(loc[c].cur)
           l == [loc[c] EXCEPT !.cur = @ \ {d}]
       IN
        /\ users' = [users EXCEPT ![d.user] = increment_stats(@, 0, d.points)]
        /\ IF l.cur = {}
           THEN ScoreDone(c, l)
           ELSE Await(c, "sm_inc", l)
    /\ UNCHANGED <<now, matches, preds, fin_ok, pin, pout>>

\* --------------------------- PredictionService: score_all_pending_matches

\* the query of find_finished_unscored: finished matches that carry a result
FinishedWithResult(doc) ==
    /\ doc.status = "finished"
    /\ doc.home_score # None
    /\ doc.away_score # None

\* the next match of the loop: the list comes sorted by finished_at, latest
\* first
NextMatch(todo) ==
    CHOOSE m \in todo :
        \A n \in todo :
            \/ matches[m].finished_at > matches[n].finished_at
            \/ matches[m].finished_at = matches[n].finished_at /\ m <= n

\* score_all_pending_matches: find_finished_unscored
score_all_pending_matches(c) ==
    /\ Idle(c)
    /\ UNCHANGED <<now, matches, preds, users, fin_ok, pin, pout>>
    /\ LET found == {m \in DOMAIN matches : FinishedWithResult(matches[m])}
       IN  IF found = {}
           THEN Return(c, Result("score_all_pending_matches", "ok", 0))
           ELSE Await(c, "sa_next",
                      [Loc0 EXCEPT !.op = "score_all_pending_matches",
                          !.todo = found,
                          !.before = [u \in UserIds |-> users[u].total_points],
                          !.awarded = [u \in UserIds |-> 0]])

\* score_all_pending_matches: the score_match_predictions of the next match,
\* up to its scoring pass; a PredictionServiceError skips the match
score_all_pending_matches_next(c) ==
    /\ pc[c] = "sa_next"
    /\ UNCHANGED <<now, matches, preds, users, fin_ok, pin, pout>>
    /\ LET m == NextMatch(loc[c].todo)
           l == [loc[c] EXCEPT !.todo = @ \ {m}, !.m = m, !.cnt = 0,
                               !.h = matches[m].home_score,
                               !.a = matches[m].away_score]
       IN  IF ~MatchValid(matches[m])
           THEN Return(c, Result("score_all_pending_matches", "ValidationError",
                                 None))
           ELSE IF matches[m].status # "finished"
           THEN ScoreDone(c, l)
           ELSE Await(c, "score_find", l)

\* --------------------------------------- AnalyticsService: leaderboard

LeaderboardType == {"points", "accuracy", "exact_scores", "streak", "efficiency"}

TimePeriod == {"day", "week", "month", "season", "year", "all_time"}

\* the length of a calendar period in clock ticks
PeriodTicks(period) ==
    CASE period = "day" -> DayTicks
      [] period = "week" -> WeekTicks
      [] period = "month" -> MonthTicks
      [] period = "year" -> YearTicks

\* the first tick after time 0 that starts a period: time 0 starts a day and
\* a week, time 1 is the first of January
PeriodOffset(period) ==
    CASE period = "day" -> 0
      [] period = "week" -> 0
      [] period = "month" -> 1
      [] period = "year" -> 1

\* now.replace(...): the latest start of a period at or before t
PeriodStart(period, t) ==
    t - ((t + YearTicks - PeriodOffset(period)) % PeriodTicks(period))

\* AnalyticsService._get_period_dates: (start, end); season falls through to
\* the else branch
get_period_dates(period, t) ==
    IF period \in {"all_time", "season"} THEN <<None, None>>
    ELSE <<PeriodStart(period, t), t>>

\* a match_stage that forgets the period
MatchStage_nowindow(doc, dates) ==
    /\ doc.st = "live"
    /\ doc.is_scored = TRUE

\* get_leaderboard's match_stage: is_scored, and scored_at within the dates
\* when there is a period start
MatchStage(doc, dates) ==
    /\ doc.st = "live"
    /\ doc.is_scored = TRUE
    /\ dates[1] # None => (doc.scored_at >= dates[1] /\ doc.scored_at <= dates[2])

\* {"$sum": "$points"} over a set of documents
RECURSIVE SumPoints(_)
SumPoints(P) ==
    IF P = {} THEN 0
    ELSE LET p == CHOOSE q \in P : TRUE
         IN  preds[p].points + SumPoints(P \ {p})

\* {"$round": [x * 100, 2]} for x = n / d, in hundredths of a percent
\* (ties to even)
RoundPercent(n, d) ==
    LET q == (n * 10000) \div d
        r == (n * 10000) % d
    IN  IF 2 * r > d THEN q + 1
        ELSE IF 2 * r < d THEN q
        ELSE IF q % 2 = 0 THEN q ELSE q + 1

\* the $group by user_id and the $addFields of get_leaderboard
GroupByUser(dates) ==
    {LET P == {p \in DOMAIN preds : MatchStage(preds[p], dates) /\ preds[p].user = u}
     IN  [user_id |-> u,
          total_points |-> SumPoints(P),
          total_predictions |-> Cardinality(P),
          exact_scores |-> Cardinality({p \in P : preds[p].points = 3}),
          accuracy_percent |->
              RoundPercent(Cardinality({p \in P : preds[p].points > 0}),
                           Cardinality(P))]
     : u \in {preds[p].user : p \in {q \in DOMAIN preds : MatchStage(preds[q], dates)}}}

\* the qualification $match without its threshold
Qualified_all(G, min_predictions) == G

\* {"$match": {"total_predictions": {"$gte": min_predictions}}}
Qualified(G, min_predictions) ==
    {g \in G : g.total_predictions >= min_predictions}

\* AnalyticsService._get_sort_field (streak takes the mapping's default)
get_sort_field(leaderboard_type) ==
    CASE leaderboard_type = "points" -> "total_points"
      [] leaderboard_type = "accuracy" -> "accuracy_percent"
      [] leaderboard_type = "exact_scores" -> "exact_scores"
      [] leaderboard_type = "efficiency" -> "accuracy_percent"
      [] OTHER -> "total_points"

\* a sort on the metric's key alone, without the tie-break
SortedOrders_keyonly(G, sort_field) ==
    {f \in [1..Cardinality(G) -> G] :
        /\ \A i, j \in 1..Cardinality(G) : i # j => f[i] # f[j]
        /\ \A i, j \in 1..Cardinality(G) : i < j =>
            f[i][sort_field] >= f[j][sort_field]}

\* {"$sort": {sort_field: -1, "total_predictions": -1}}: the orders the sort
\* may produce (documents equal on both keys come in any order)
SortedOrders(G, sort_field) ==
    {f \in [1..Cardinality(G) -> G] :
        /\ \A i, j \in 1..Cardinality(G) : i # j => f[i] # f[j]
        /\ \A i, j \in 1..Cardinality(G) : i < j =>
            \/ f[i][sort_field] > f[j][sort_field]
            \/ /\ f[i][sort_field] = f[j][sort_field]
               /\ f[i].total_predictions >= f[j].total_predictions}

\* {"$limit": limit}, then enumerate(results, start=1)
RankedEntries(f, limit) ==
    [i \in 1..(IF Len(f) < limit THEN Len(f) ELSE limit) |->
        [rank |-> i, user_id |-> f[i].user_id,
         total_points |-> f[i].total_points,
         total_predictions |-> f[i].total_predictions,
         accuracy_percent |-> f[i].accuracy_percent,
         exact_scores |-> f[i].exact_scores]]

\* AnalyticsService.get_leaderboard up to the await of the count pipeline:
\* the period dates and the ranking aggregation
get_leaderboard(c, leaderboard_type, period, limit, min_predictions) ==
    /\ Idle(c)
    /\ LET dates == get_period_dates(period, now)
           G == Qualified(GroupByUser(dates), min_predictions)
       IN  \E f \in SortedOrders(G, get_sort_field(leaderboard_type)) :
               Await(c, "lb_count",
                     [Loc0 EXCEPT !.op = "get_leaderboard",
                        !.args = [leaderboard_type |-> leaderboard_type,
                                  period |-> period, limit |-> limit,
                                  min_predictions |-> min_predictions],
                        !.stage = dates,
                        !.entries = RankedEntries(f, limit)])
    /\ UNCHANGED <<now, matches, preds, users, fin_ok, pin, pout>>

\* get_leaderboard: the count pipeline over the same match_stage, and the
\* Leaderboard returned
get_leaderboard_count(c) ==
    /\ pc[c] = "lb_count"
    /\ LET total == Cardinality({preds[p].user :
                        p \in {q \in DOMAIN preds : MatchStage(preds[q], loc[c].stage)}})
       IN  Return(c, [Result("get_leaderboard", "ok", total)
                        EXCEPT !.entries = loc[c].entries])
    /\ UNCHANGED <<now, matches, preds, users, fin_ok, pin, pout>>

\* ------------------------------ UserService: recalculate_stats, delete_user

\* the $group of recalculate_user_stats over {user_id, is_scored: True}: the
\* number of the user's scored predictions and the sum of their points
\* (no group, hence the reset to zero, when the user has none)
ScoredStats(u) ==
    LET P == {p \in DOMAIN preds : /\ preds[p].st = "live"
                                   /\ preds[p].user = u
                                   /\ preds[p].is_scored}
    IN  [total_predictions |-> Cardinality(P), total_points |-> SumPoints(P)]

\* UserService.recalculate_stats: the aggregate over the predictions
recalculate_stats(c, u) ==
    /\ Idle(c)
    /\ UNCHANGED <<now, matches, preds, users, fin_ok, pin, pout>>
    /\ Await(c, "rs_write",
             [Loc0 EXCEPT !.op = "recalculate_stats", !.u = u,
                          !.upd = ScoredStats(u)])

\* recalculate_user_stats: the $set of both counters by _id
recalculate_stats_write(c) ==
    /\ pc[c] = "rs_write"
    /\ LET u == loc[c].u IN
        IF u \notin DOMAIN users
        THEN /\ UNCHANGED users
             /\ Return(c, Result("recalculate_stats", "UserNotFoundError", None))
        ELSE /\ users' = [users EXCEPT ![u] = ApplySet(@, loc[c].upd)]
             /\ Return(c, Result("recalculate_stats", "ok", None))
    /\ UNCHANGED <<now, matches, preds, fin_ok, pin, pout>>

\* UserService.delete_user(hard_delete=True): get_user
delete_user(c, u) ==
    /\ Idle(c)
    /\ UNCHANGED <<now, matches, preds, users, fin_ok, pin, pout>>
    /\ IF u \notin DOMAIN users
       THEN Return(c, Result("delete_user", "UserNotFoundError", None))
       ELSE IF ~UserValid(users[u])
       THEN Return(c, Result("delete_user", "ValidationError", None))
       ELSE Await(c, "du_preds", [Loc0 EXCEPT !.op = "delete_user", !.u = u])

\* delete_user: delete_many({"user_id": ...}) on the predictions
delete_user_predictions(c) ==
    /\ pc[c] = "du_preds"
    /\ preds' = [p \in DOMAIN preds |->
                    IF preds[p].st = "live" /\ preds[p].user = loc[c].u
                    THEN [preds[p] EXCEPT !.st = "deleted"]
                    ELSE preds[p]]
    /\ Await(c, "du_user", loc[c])
    /\ UNCHANGED <<now, matches, users, fin_ok, pin, pout>>

\* delete_user: BaseRepository.delete_by_id on the users
delete_user_delete(c) ==
    /\ pc[c] = "du_user"
    /\ users' = [v \in DOMAIN users \ {loc[c].u} |-> users[v]]
    /\ Return(c, Result("delete_user",
                        IF loc[c].u \in DOMAIN users THEN "ok" ELSE "False",
                        None))
    /\ UNCHANGED <<now, matches, preds, fin_ok, pin, pout>>

\* ------------------------------------------ statistics: get_user_stats

\* {"$match": {"user_id": user_id}}
UserDocs(u) ==
    {p \in DOMAIN preds : preds[p].st = "live" /\ preds[p].user = u}

\* {"$sum": {"$ifNull": ["$points", 0]}}
RECURSIVE SumIfNull(_)
SumIfNull(P) ==
    IF P = {} THEN 0
    ELSE LET p == CHOOSE q \in P : TRUE
         IN  (IF preds[p].points = None THEN 0 ELSE preds[p].points)
                + SumIfNull(P \ {p})

\* a pending count that does not look at is_scored
PendingCount_all(P) == Cardinality(P)

\* {"$sum": {"$cond": ["$is_scored", 0, 1]}}
PendingCount(P) == Cardinality({p \in P : ~preds[p].is_scored})

\* the outcomes facet: scored documents grouped by points, read at key k
OutcomeCount(P, k) ==
    Cardinality({p \in P : preds[p].is_scored /\ preds[p].points = k})

\* the streaks facet: the scored documents sorted by scored_at (natural
\* order among equal times), each pushed as 1 when points > 0, else 0
StreakResults(P) ==
    LET S == {p \in P : preds[p].is_scored}
        f == CHOOSE g \in [1..Cardinality(S) -> S] :
                /\ \A i, j \in 1..Cardinality(S) : i # j => g[i] # g[j]
                /\ \A i, j \in 1..Cardinality(S) : i < j =>
                        \/ preds[g[i]].scored_at < preds[g[j]].scored_at
                        \/ /\ preds[g[i]].scored_at = preds[g[j]].scored_at
                           /\ g[i] < g[j]
    IN  [i \in 1..Cardinality(S) |-> IF preds[f[i]].points > 0 THEN 1 ELSE 0]

\* the UserPredictionStats that AnalyticsService.get_user_stats builds
UserStats(u) ==
    LET P == UserDocs(u)
        st == calculate_streaks(StreakResults(P))
    IN  [total_predictions |-> Cardinality(P),
         scored_predictions |-> Cardinality({p \in P : preds[p].is_scored}),
         pending_predictions |-> PendingCount(P),
         exact_scores |-> OutcomeCount(P, EXACT_SCORE),
         correct_diffs |-> OutcomeCount(P, CORRECT_DIFFERENCE),
         correct_outcomes |-> OutcomeCount(P, CORRECT_OUTCOME),
         incorrect |-> OutcomeCount(P, INCORRECT),
         total_points |-> SumIfNull(P),
         current_streak |-> st[1], best_streak |-> st[2],
         worst_streak |-> st[3]]

\* the UserPredictionStats that PredictionRepository.get_user_stats builds:
\* one $group, the point counts taken over all the user's documents
RepoUserStats(u) ==
    LET P == UserDocs(u)
    IN  [total_predictions |-> Cardinality(P),
         scored_predictions |-> Cardinality({p \in P : preds[p].is_scored}),
         total_points |-> SumIfNull(P),
         exact_scores |->
            Cardinality({p \in P : preds[p].points = EXACT_SCORE}),
         correct_differences |->
            Cardinality({p \in P : preds[p].points = CORRECT_DIFFERENCE}),
         correct_outcomes |->
            Cardinality({p \in P : preds[p].points = CORRECT_OUTCOME}),
         incorrect |->
            Cardinality({p \in P : preds[p].is_scored
                                    /\ preds[p].points = INCORRECT})]

\* AnalyticsService.get_user_stats: the user lookup
get_user_stats(c, u) ==
    /\ Idle(c)
    /\ UNCHANGED <<now, matches, preds, users, fin_ok, pin, pout>>
    /\ IF u \notin DOMAIN users
       THEN Return(c, [Result("get_user_stats", "None", None)
                         EXCEPT !.args = [user_id |-> u]])
       ELSE Await(c, "us_aggregate",
                  [Loc0 EXCEPT !.op = "get_user_stats", !.u = u])

\* AnalyticsService.get_user_stats: the $facet aggregate and the result
get_user_stats_aggregate(c) ==
    /\ pc[c] = "us_aggregate"
    /\ UNCHANGED <<now, matches, preds, users, fin_ok, pin, pout>>
    /\ Return(c, [Result("get_user_stats", "ok", None)
                    EXCEPT !.args = [user_id |-> loc[c].u],
                           !.entries = UserStats(loc[c].u)])

\* PredictionService.get_user_stats / PredictionRepository.get_user_stats
prediction_get_user_stats(c, u) ==
    /\ Idle(c)
    /\ UNCHANGED <<now, matches, preds, users, fin_ok, pin, pout>>
    /\ Return(c, [Result("prediction_get_user_stats", "ok", None)
                    EXCEPT !.args = [user_id |-> u],
                           !.entries = RepoUserStats(u)])

\* ------------------------------------------- statistics: computed fields

\* a float result: <<"ok", value>>, or the exception the expression raises
ZeroDivision == <<"ZeroDivisionError", 0>>

\* round(n / d * 100, 2) / 100: n / d in hundredths (ties to even); the
\* division raises when d = 0
RoundRatio(n, d) ==
    IF d = 0 THEN ZeroDivision
    ELSE LET q == (n * 100) \div d
             r == (n * 100) % d
         IN  <<"ok", IF 2 * r > d THEN q + 1
                     ELSE IF 2 * r < d THEN q
                     ELSE IF q % 2 = 0 THEN q ELSE q + 1>>

\* UserPredictionStats.accuracy_percent, in hundredths of a percent
accuracy_percent(s) ==
    IF s.scored_predictions = 0 THEN <<"ok", 0>>
    ELSE <<"ok", RoundPercent(s.exact_scores + s.correct_diffs + s.correct_outcomes,
                              s.scored_predictions)>>

\* the average without its guard
avg_points_per_prediction_noguard(s) ==
    RoundRatio(s.total_points, s.scored_predictions)

\* UserPredictionStats.avg_points_per_prediction, in hundredths
avg_points_per_prediction(s) ==
    IF s.scored_predictions = 0 THEN <<"ok", 0>>
    ELSE RoundRatio(s.total_points, s.scored_predictions)

\* UserPredictionStats.points_efficiency, in hundredths of a percent
points_efficiency(s) ==
    LET max_points == s.scored_predictions * 3
    IN  IF max_points = 0 THEN <<"ok", 0>>
        ELSE <<"ok", RoundPercent(s.total_points, max_points)>>

\* User.average_points: the unrounded quotient, as numerator and denominator
average_points(u) ==
    IF u.total_predictions = 0 THEN <<"ok", 0, 1>>
    ELSE <<"ok", u.total_points, u.total_predictions>>

\* ---------------------------------------------------- statistics: trend

RECURSIVE Pow2(_)
Pow2(k) == IF k = 0 THEN 1 ELSE 2 * Pow2(k - 1)

\* the binary exponent of the quotient n / d (n >= 1): 2^e <= n / d < 2^(e+1)
Exp2(n, d) ==
    CHOOSE e \in -2..8 :
        IF e >= 0 THEN Pow2(e) * d <= n /\ n < Pow2(e + 1) * d
        ELSE d <= n * Pow2(-e) /\ n * Pow2(-e) < 2 * d

\* the float division n / d of a sum of whole percentages by a length of 2
\* or 3: what the double nearest to the quotient differs from it by, in
\* units of 2^-54 / 3. Halves are exact; a third of a unit in the last of
\* 53 bits is cut (remainder 1) or filled up (remainder 2), and which it is
\* alternates with the exponent
FloatError(n, d) ==
    IF n % d = 0 \/ d = 2 THEN 0
    ELSE LET e == Exp2(n, d)
             r == ((n % 3) * (IF (52 - e) % 2 = 0 THEN 1 ELSE 2)) % 3
         IN  IF r = 1 THEN 0 - Pow2(e + 2) ELSE Pow2(e + 2)

\* sum(dp.accuracy_percent for dp in s)
RECURSIVE SumSeq(_)
SumSeq(s) == IF Len(s) = 0 THEN 0 ELSE Head(s) + SumSeq(Tail(s))

\* the sign of (recent_avg - older_avg) - bound as the float expression
\* yields it, for bound = 5 or -5: quotients that differ from the bound by
\* more than rounding compare as the fractions do; at an exact difference
\* of the bound the rounding errors of the two divisions decide, and the
\* subtraction rounds what is within half a unit of the last place
\* (24 units) to the bound itself
CompareDiff(sr, nr, so, no, bound) ==
    LET x == sr * no - so * nr - bound * nr * no
        delta == FloatError(sr, nr) - FloatError(so, no)
    IN  IF x > 0 THEN 1
        ELSE IF x < 0 THEN -1
        ELSE IF delta > 24 THEN 1
        ELSE IF delta < -24 THEN -1
        ELSE 0

\* a trend that takes the last 2 buckets as the recent ones
trend_direction_lasttwo(data_points) ==
    IF Len(data_points) < 2 THEN "stable"
    ELSE LET n == Len(data_points)
             recent == SubSeq(data_points, n - 1, n)
             older == SubSeq(data_points, 1, IF n >= 3 THEN 3 ELSE n)
         IN  IF CompareDiff(SumSeq(recent), Len(recent),
                            SumSeq(older), Len(older), 5) > 0
             THEN "improving"
             ELSE IF CompareDiff(SumSeq(recent), Len(recent),
                                 SumSeq(older), Len(older), -5) < 0
             THEN "declining"
             ELSE "stable"

\* UserTrend.trend_direction on the accuracy percentages of the data points
trend_direction(data_points) ==
    IF Len(data_points) < 2 THEN "stable"
    ELSE LET n == Len(data_points)
             recent == IF n >= 3 THEN SubSeq(data_points, n - 2, n)
                       ELSE data_points
             older == SubSeq(data_points, 1, IF n >= 3 THEN 3 ELSE n)
         IN  IF CompareDiff(SumSeq(recent), Len(recent),
                            SumSeq(older), Len(older), 5) > 0
             THEN "improving"
             ELSE IF CompareDiff(SumSeq(recent), Len(recent),
                                 SumSeq(older), Len(older), -5) < 0
             THEN "declining"
             ELSE "stable"

\* ------------------------------------------------------- specifications

\* the clock advances
Tick ==
    /\ now < MaxTime
    /\ now' = now + 1
    /\ UNCHANGED <<matches, preds, users, pc, loc, res, fin_ok, pin, pout>>

\* a call of calculate_points on the inputs under test
calculate_points_call ==
    /\ pout = None
    /\ pout' = calculate_points(pin[1], pin[2], pin[3], pin[4])
    /\ UNCHANGED <<now, matches, preds, users, pc, loc, res, fin_ok, pin>>

\* a call of MatchService begins
MatchCall(c) ==
    \E m \in MatchIds :
        \/ start_match(c, m)
        \/ \E h, a \in Scores : finish_match(c, m, h, a)
        \/ cancel_match(c, m)
        \/ \E t \in {None} \cup TimeInputs : postpone_match(c, m, t)
        \/ lock_predictions(c, m)
        \/ unlock_predictions(c, m)
        \/ \E mb \in {0, 1} : auto_lock_starting_matches(c, mb)
        \/ \E data \in UpdateInputs : update_match(c, m, data)
        \/ \E t \in TimeInputs : reschedule_match(c, m, t)

\* a call of MatchService goes on after an await
MatchStep(c) ==
    \/ start_match_write(c)
    \/ finish_match_set_result(c)
    \/ score_predictions_for_match_find(c)
    \/ score_predictions_for_match_update(c)
    \/ cancel_match_write(c)
    \/ postpone_match_write(c)
    \/ unlock_predictions_write(c)
    \/ update_match_write(c)
    \/ reschedule_match_update(c)

\* create_prediction goes on after an await
CreateStep(c) ==
    \/ create_prediction_match(c)
    \/ create_prediction_existing(c)
    \/ create_prediction_insert(c)
    \/ create_prediction_count(c)
    \/ create_prediction_stats(c)

\* delete_prediction goes on after an await
DeleteStep(c) ==
    \/ delete_prediction_delete(c)
    \/ delete_prediction_count(c)
    \/ delete_prediction_stats(c)

\* the match lifecycle alone, requests served one at a time, on a match
\* that already carries one prediction of user 1
InitLife ==
    /\ now = 0
    /\ matches = [m \in MatchIds |-> [NewMatch EXCEPT !.total_predictions = 1]]
    /\ \E h \in Scores :
            preds = [p \in PredIds |-> IF p = 1 THEN NewPred(1, 1, h, 0) ELSE NoPred]
    /\ users = [u \in UserIds |->
                    IF u = 1 THEN increment_stats(NewUser, 1, 0) ELSE NewUser]
    /\ pc = [c \in Procs |-> "idle"]
    /\ loc = [c \in Procs |-> Loc0]
    /\ res = [c \in Procs |->
                    IF c = 1 THEN Result("create_prediction", "ok", None)
                    ELSE NoRes]
    /\ fin_ok = {}
    /\ pin = <<0, 0, 0, 0>>
    /\ pout = None

NextLife ==
    \/ Tick
    \/ \E c \in {1} : MatchCall(c) \/ MatchStep(c)

SpecLife == InitLife /\ [][NextLife]_vars

\* prediction creation against the state of the match and of the user,
\* requests served one at a time
NextSeq ==
    \E c \in {1} :
        \/ \E m \in MatchIds :
            \/ start_match(c, m)
            \/ lock_predictions(c, m)
            \/ unlock_predictions(c, m)
            \/ \E s \in MatchStatus : update_match(c, m, [status |-> s])
        \/ start_match_write(c)
        \/ unlock_predictions_write(c)
        \/ update_match_write(c)
        \/ \E u \in UserIds :
            \/ deactivate_user(c, u)
            \/ activate_user(c, u)
            \/ \E m \in MatchIds : create_prediction(c, u, m, 0, 0)
        \/ CreateStep(c)

SpecSeq == Init /\ [][NextSeq]_vars

\* concurrent creation and deletion of predictions
NextCreate ==
    \E c \in Procs :
        \/ \E u \in UserIds, m \in MatchIds, h \in Scores :
                create_prediction(c, u, m, h, 0)
        \/ CreateStep(c)
        \/ \E u \in UserIds, p \in PredIds : delete_prediction(c, p, u)
        \/ DeleteStep(c)

SpecCreate == Init /\ [][NextCreate]_vars

\* concurrent finishing and scoring of a match that carries one prediction
\* of each of the first two users
InitRace ==
    /\ now = 0
    /\ matches = [m \in MatchIds |-> [NewMatch EXCEPT !.total_predictions = 2]]
    /\ preds = [p \in PredIds |->
                    IF p = 1 THEN NewPred(1, 1, 1, 0)
                    ELSE IF p = 2 THEN NewPred(2, 1, 0, 0) ELSE NoPred]
    /\ users = [u \in UserIds |->
                    IF u \in {1, 2} THEN increment_stats(NewUser, 1, 0) ELSE NewUser]
    /\ pc = [c \in Procs |-> "idle"]
    /\ loc = [c \in Procs |-> Loc0]
    /\ res = [c \in Procs |-> NoRes]
    /\ fin_ok = {}
    /\ pin = <<0, 0, 0, 0>>
    /\ pout = None

NextRace ==
    \E c \in Procs :
        \/ \E m \in MatchIds, h \in Scores : finish_match(c, m, h, 0)
        \/ finish_match_set_result(c)
        \/ score_predictions_for_match_find(c)
        \/ score_predictions_for_match_update(c)
        \/ \E m \in MatchIds : score_match_predictions(c, m)
        \/ score_match_predictions_list(c)
        \/ score_match_predictions_stats(c)
        \/ score_all_pending_matches(c)
        \/ score_all_pending_matches_next(c)

SpecRace == InitRace /\ [][NextRace]_vars

\* calculate_points on every input pair
InitPure ==
    /\ Init!1 /\ Init!2 /\ Init!3 /\ Init!4 /\ Init!5 /\ Init!6 /\ Init!7 /\ Init!8
    /\ pin \in Goals \X Goals \X Goals \X Goals
    /\ pout = None

NextPure == calculate_points_call

SpecPure == InitPure /\ [][NextPure]_vars

\* the result lists get_user_stats builds: 1 = points > 0, 0 = no points
ResultLists == UNION {[1..n -> {0, 1}] : n \in 0..MaxResults}

\* a call of _calculate_streaks on the list under test (<<>> = not called)
calculate_streaks_call ==
    /\ pout = <<>>
    /\ pout' = calculate_streaks(pin)
    /\ UNCHANGED <<now, matches, preds, users, pc, loc, res, fin_ok, pin>>

\* _calculate_streaks on every result list
InitStreak ==
    /\ Init!1 /\ Init!2 /\ Init!3 /\ Init!4 /\ Init!5 /\ Init!6 /\ Init!7 /\ Init!8
    /\ pin \in ResultLists
    /\ pout = <<>>

NextStreak == calculate_streaks_call

SpecStreak == InitStreak /\ [][NextStreak]_vars

\* the final scores the predictions of the leaderboard states were scored
\* against, each predicting 0-0: 3, 2 and 0 points
BoardResults == {<<0, 0>>, <<1, 1>>, <<1, 0>>}

\* the documents prediction p (for match p: one prediction per user and
\* match) can be at time t: absent, unscored, or scored at some time up to t
BoardPreds(p, t) ==
    {NoPred}
    \cup {NewPred(u, p, 0, 0) : u \in UserIds}
    \cup {ScoreDoc(NewPred(u, p, 0, 0), [ph |-> 0, pa |-> 0], r[1], r[2], at) :
            u \in UserIds, r \in BoardResults, at \in 0..t}

\* the match of a prediction log: pending, or finished with the result its
\* prediction was scored against
BoardMatch(doc) ==
    IF doc.is_scored
    THEN [NewMatch EXCEPT !.status = "finished",
                          !.home_score = doc.actual_home_score,
                          !.away_score = doc.actual_away_score,
                          !.finished_at = doc.scored_at,
                          !.predictions_locked = TRUE,
                          !.total_predictions = 1]
    ELSE [NewMatch EXCEPT !.total_predictions =
                                IF doc.st = "live" THEN 1 ELSE 0]

InitBoard ==
    /\ now \in 0..MaxTime
    /\ preds \in [PredIds -> UNION {BoardPreds(p, now) : p \in PredIds}]
    /\ \A p \in PredIds : preds[p] \in BoardPreds(p, now)
    /\ matches = [m \in MatchIds |-> BoardMatch(preds[m])]
    /\ users = [u \in UserIds |->
                    increment_stats(NewUser,
                        Cardinality({p \in PredIds : preds[p].st = "live"
                                                      /\ preds[p].user = u}),
                        0)]
    /\ pc = [c \in Procs |-> "idle"]
    /\ loc = [c \in Procs |-> Loc0]
    /\ res = [c \in Procs |-> NoRes]
    /\ fin_ok = {}
    /\ pin = <<0, 0, 0, 0>>
    /\ pout = None

\* leaderboards over a fixed prediction log, requests served one at a time
NextBoard ==
    \E c \in {1} :
        \/ \E ty \in LeaderboardType, period \in TimePeriod,
              limit \in 1..MaxPreds, min_predictions \in 0..MaxPreds :
                get_leaderboard(c, ty, period, limit, min_predictions)
        \/ get_leaderboard_count(c)

SpecBoard == InitBoard /\ [][NextBoard]_vars

\* a log of up to MaxLog predictions, all scored at time 0
InitRank ==
    /\ now = 0
    /\ preds \in [1..MaxLog -> UNION {BoardPreds(p, 0) : p \in 1..MaxLog}]
    /\ \A p \in 1..MaxLog : preds[p] \in BoardPreds(p, 0)
    /\ matches = [m \in MatchIds |-> BoardMatch(preds[m])]
    /\ users = [u \in UserIds |->
                    increment_stats(NewUser,
                        Cardinality({p \in 1..MaxLog : preds[p].st = "live"
                                                       /\ preds[p].user = u}),
                        0)]
    /\ pc = [c \in Procs |-> "idle"]
    /\ loc = [c \in Procs |-> Loc0]
    /\ res = [c \in Procs |-> NoRes]
    /\ fin_ok = {}
    /\ pin = <<0, 0, 0, 0>>
    /\ pout = None

\* one leaderboard request over a fixed prediction log
NextRank ==
    \E c \in {1} :
        \/ /\ res[c] = NoRes
           /\ \E ty \in LeaderboardType, period \in TimePeriod,
                 limit \in 1..MaxLog, min_predictions \in 0..MaxLog :
                   get_leaderboard(c, ty, period, limit, min_predictions)
        \/ get_leaderboard_count(c)

SpecRank == InitRank /\ [][NextRank]_vars

\* the counters the computed fields are evaluated on: every value the field
\* constraints (ge=0) admit, up to MaxLog predictions of at most 3 points
StatsInputs ==
    [scored_predictions : 0..MaxLog, exact_scores : 0..MaxLog,
     correct_diffs : 0..MaxLog, correct_outcomes : 0..MaxLog,
     total_points : 0..(EXACT_SCORE * MaxLog), total_predictions : 0..MaxLog]

\* the computed fields are read (<<>> = not read yet)
computed_fields_call ==
    /\ pout = <<>>
    /\ pout' = [accuracy_percent |-> accuracy_percent(pin),
                avg_points_per_prediction |-> avg_points_per_prediction(pin),
                points_efficiency |-> points_efficiency(pin),
                average_points |-> average_points(pin)]
    /\ UNCHANGED <<now, matches, preds, users, pc, loc, res, fin_ok, pin>>

\* the derived ratios on every combination of counters
InitRatio ==
    /\ Init!1 /\ Init!2 /\ Init!3 /\ Init!4 /\ Init!5 /\ Init!6 /\ Init!7 /\ Init!8
    /\ pin \in StatsInputs
    /\ pout = <<>>

NextRatio == computed_fields_call

SpecRatio == InitRatio /\ [][NextRatio]_vars

\* the daily accuracy percentages of the trends under test: no hit, 17 hits
\* out of 20, every prediction a hit
TrendValues == {0, 85, 100}

\* the data points of a trend: up to MaxResults daily buckets
TrendInputs == UNION {[1..n -> TrendValues] : n \in 0..MaxResults}

\* trend_direction is read ("none" = not read yet)
trend_direction_call ==
    /\ pout = "none"
    /\ pout' = trend_direction(pin)
    /\ UNCHANGED <<now, matches, preds, users, pc, loc, res, fin_ok, pin>>

\* trend_direction on every list of data points
InitTrend ==
    /\ Init!1 /\ Init!2 /\ Init!3 /\ Init!4 /\ Init!5 /\ Init!6 /\ Init!7 /\ Init!8
    /\ pin \in TrendInputs
    /\ pout = "none"

NextTrend == trend_direction_call

SpecTrend == InitTrend /\ [][NextTrend]_vars

\* the matches a sweep can meet: every status, locked or not, scheduled at
\* any time; a finished match carries its result
SweepMatches ==
    {[NewMatch EXCEPT !.status = st, !.predictions_locked = b,
                      !.scheduled_at = t,
                      !.home_score = IF st = "finished" THEN 0 ELSE None,
                      !.away_score = IF st = "finished" THEN 0 ELSE None,
                      !.finished_at = IF st = "finished" THEN 0 ELSE None] :
        st \in MatchStatus, b \in BOOLEAN, t \in TimeInputs}

InitSweep ==
    /\ now = 0
    /\ matches \in [1..MaxMatches -> SweepMatches]
    /\ preds = [p \in PredIds |-> NoPred]
    /\ users = [u \in UserIds |-> NewUser]
    /\ pc = [c \in Procs |-> "idle"]
    /\ loc = [c \in Procs |-> Loc0]
    /\ res = [c \in Procs |-> NoRes]
    /\ fin_ok = {}
    /\ pin = <<0, 0, 0, 0>>
    /\ pout = None

\* the periodic sweep over a collection of matches
NextSweep ==
    \/ Tick
    \/ \E c \in {1}, mb \in {0, 1} : auto_lock_starting_matches(c, mb)

SpecSweep == InitSweep /\ [][NextSweep]_vars

\* an identifier that resolves to no document of any collection
MissingId == 0

\* every operation called with identifiers that resolve and with one that
\* does not, requests served one at a time
NextMissing ==
    \E c \in {1} :
        \/ \E m \in MatchIds \cup {MissingId} :
            \/ start_match(c, m)
            \/ finish_match(c, m, 0, 0)
            \/ cancel_match(c, m)
            \/ postpone_match(c, m, None)
            \/ lock_predictions(c, m)
            \/ unlock_predictions(c, m)
            \/ update_match(c, m, [status |-> "finished", home_score |-> 1,
                                   away_score |-> 0])
            \/ reschedule_match(c, m, MaxTime + 1)
            \/ score_match_predictions(c, m)
            \/ \E u \in {1, MissingId} : create_prediction(c, u, m, 0, 0)
        \/ \E u \in {1, MissingId} : deactivate_user(c, u) \/ activate_user(c, u)
        \/ \E p \in PredIds :
            \/ update_prediction(c, p, 1, 1, 0)
            \/ delete_prediction(c, p, 1)
        \/ MatchStep(c)
        \/ CreateStep(c)
        \/ DeleteStep(c)
        \/ update_prediction_match(c)
        \/ update_prediction_write(c)
        \/ score_match_predictions_list(c)
        \/ score_match_predictions_stats(c)

SpecMissing == Init /\ [][NextMissing]_vars

\* concurrent lifecycle transitions of one match that carries one
\* prediction of each of the first two users
NextClash ==
    \E c \in Procs :
        \/ \E m \in MatchIds :
            \/ start_match(c, m)
            \/ \E h \in Scores : finish_match(c, m, h, 0)
            \/ cancel_match(c, m)
            \/ \E t \in {None, MaxTime} : postpone_match(c, m, t)
        \/ start_match_write(c)
        \/ finish_match_set_result(c)
        \/ score_predictions_for_match_find(c)
        \/ score_predictions_for_match_update(c)
        \/ cancel_match_write(c)
        \/ postpone_match_write(c)

SpecClash == InitRace /\ [][NextClash]_vars

\* prediction creation concurrent with the calls that close a match to
\* predictions
NextLate ==
    \E c \in Procs :
        \/ \E u \in UserIds, m \in MatchIds : create_prediction(c, u, m, 0, 0)
        \/ CreateStep(c)
        \/ \E m \in MatchIds :
            \/ start_match(c, m)
            \/ finish_match(c, m, 0, 0)
            \/ cancel_match(c, m)
            \/ lock_predictions(c, m)
        \/ auto_lock_starting_matches(c, 1)
        \/ start_match_write(c)
        \/ finish_match_set_result(c)
        \/ score_predictions_for_match_find(c)
        \/ score_predictions_for_match_update(c)
        \/ cancel_match_write(c)

SpecLate == Init /\ [][NextLate]_vars

\* predictions created, scored, deleted and recounted, requests served one
\* at a time
NextStats ==
    \E c \in {1} :
        \/ \E u \in UserIds, m \in MatchIds :
            \/ \E h \in Scores : create_prediction(c, u, m, h, 0)
            \/ recalculate_stats(c, u)
            \/ \E p \in PredIds : delete_prediction(c, p, u)
        \/ \E m \in MatchIds :
            \/ \E h \in Scores : finish_match(c, m, h, 0)
            \/ score_match_predictions(c, m)
            \/ update_match(c, m, [status |-> "finished", home_score |-> 1,
                                   away_score |-> 0])
        \/ CreateStep(c)
        \/ DeleteStep(c)
        \/ update_match_write(c)
        \/ finish_match_set_result(c)
        \/ score_predictions_for_match_find(c)
        \/ score_predictions_for_match_update(c)
        \/ score_match_predictions_list(c)
        \/ score_match_predictions_stats(c)
        \/ recalculate_stats_write(c)

SpecStats == Init /\ [][NextStats]_vars

\* predictions created and deleted and users hard-deleted, requests served
\* one at a time
NextCount ==
    \E c \in {1} :
        \/ \E u \in UserIds :
            \/ \E m \in MatchIds : create_prediction(c, u, m, 0, 0)
            \/ \E p \in PredIds : delete_prediction(c, p, u)
            \/ delete_user(c, u)
        \/ CreateStep(c)
        \/ DeleteStep(c)
        \/ delete_user_predictions(c)
        \/ delete_user_delete(c)

SpecCount == Init /\ [][NextCount]_vars

\* the final scores the predictions of the statistics states were scored
\* against, each predicting 1-0: 3, 2, 1 and 0 points
StatsResults == {<<1, 0>>, <<2, 1>>, <<2, 0>>, <<0, 0>>}

\* the documents prediction p (for match p) can be: absent, unscored, or
\* scored against one of the results
StatsPreds(p) ==
    {NoPred}
    \cup {NewPred(u, p, 1, 0) : u \in UserIds}
    \cup {ScoreDoc(NewPred(u, p, 1, 0), [ph |-> 1, pa |-> 0], r[1], r[2], 0) :
            u \in UserIds, r \in StatsResults}

InitUserStats ==
    /\ now = 0
    /\ preds \in [1..MaxLog -> UNION {StatsPreds(p) : p \in 1..MaxLog}]
    /\ \A p \in 1..MaxLog : preds[p] \in StatsPreds(p)
    /\ matches = [m \in MatchIds |-> BoardMatch(preds[m])]
    /\ users = [u \in UserIds |->
                    increment_stats(NewUser,
                        Cardinality({p \in 1..MaxLog : preds[p].st = "live"
                                                       /\ preds[p].user = u}),
                        0)]
    /\ pc = [c \in Procs |-> "idle"]
    /\ loc = [c \in Procs |-> Loc0]
    /\ res = [c \in Procs |-> NoRes]
    /\ fin_ok = {}
    /\ pin = <<0, 0, 0, 0>>
    /\ pout = None

\* one statistics request over a fixed prediction log
NextUserStats ==
    \E c \in {1} :
        \/ /\ res[c] = NoRes
           /\ \E u \in UserIds \cup {MissingId} :
                \/ get_user_stats(c, u)
                \/ prediction_get_user_stats(c, u)
        \/ get_user_stats_aggregate(c)

SpecUserStats == InitUserStats /\ [][NextUserStats]_vars

\* ----------------------------------------------------------------- claims

\* the step by which a finish_match call of client c returns its result
FinishReturns(c) ==
    /\ pc[c] \in {"score_find", "score_loop"}
    /\ loc[c].op = "finish_match"
    /\ pc'[c] = "idle"

\* a finish_match call of client c begins on a match that an earlier
\* finish_match call finished, with the score that call stored
SecondFinish(c, m) ==
    /\ m \in fin_ok
    /\ finish_match(c, m, matches[m].home_score, matches[m].away_score)

\* C1 as stated: a second finish_match on a match that finish_match already
\* finished, with the same score, reports 0 predictions scored and leaves
\* every user's total_points and every prediction unchanged.
C1_SecondFinishReportsZero ==
    [][\A c \in Procs, m \in MatchIds :
        SecondFinish(c, m) =>
            /\ (pc'[c] = "idle" => res'[c].outcome = "ok" /\ res'[c].count = 0)
            /\ preds' = preds
            /\ \A u \in UserIds : users'[u].total_points = users[u].total_points
      ]_vars

\* C1 amended: a second finish_match on a match that finish_match already
\* finished, with the same score, fails with InvalidMatchStateError; it
\* scores no prediction and leaves every user's total_points and every
\* prediction unchanged.
C1_SecondFinishRejected ==
    [][\A c \in Procs, m \in MatchIds :
        SecondFinish(c, m) =>
            /\ pc'[c] = "idle"
            /\ res'[c] = Result("finish_match", "InvalidMatchStateError", None)
            /\ preds' = preds
            /\ \A u \in UserIds : users'[u].total_points = users[u].total_points
      ]_vars

\* a second finish_match was rejected after the first one scored prediction 1
C1_Witness ==
    /\ 1 \in fin_ok
    /\ preds[1].is_scored
    /\ res[1] = Result("finish_match", "InvalidMatchStateError", None)

\* C2: of two concurrent finish_match calls on a match only one writes the
\* result; the other finds the match finished and fails, so no finish_match
\* call writes a result onto a match that is already finished.
C2_OnlyOneFinishWrites ==
    [][\A c \in Procs :
        finish_match_set_result(c) => matches[loc[c].m].status # "finished"
      ]_vars

\* C3: in every reachable state no match is finished while a prediction that
\* references it is still unscored.
C3_NoFinishedUnscored ==
    \A m \in MatchIds, p \in PredIds :
        (matches[m].status = "finished" /\ preds[p].st = "live"
            /\ preds[p].match = m) => preds[p].is_scored

\* C4: when finish_match completes, every user's total_points has grown by
\* exactly the points the call awarded to that user's newly scored
\* predictions (by nothing for the other users).
C4_PointsPropagated ==
    [][\A c \in Procs :
        FinishReturns(c) =>
            \A u \in UserIds :
                users'[u].total_points
                    = res'[c].before[u] + res'[c].awarded[u]
      ]_vars

\* C5: in every reachable state, under every interleaving of create_prediction
\* calls, at most one prediction exists per (user, match) pair.
C5_OnePredictionPerPair ==
    \A p, q \in PredIds :
        (/\ preds[p].st = "live" /\ preds[q].st = "live"
         /\ preds[p].user = preds[q].user
         /\ preds[p].match = preds[q].match) => p = q

\* two creations for one pair both passed the pre-check and the insert of
\* the second was rejected while the prediction of the first exists
C5_Witness ==
    \E c \in Procs, p \in PredIds :
        /\ res[c].op = "create_prediction"
        /\ res[c].outcome = InsertRejected
        /\ preds[p].st = "live"

\* C6: when two create_prediction calls for one pair both pass the pre-check,
\* the call whose insert is rejected fails with DuplicatePredictionError.
C6_LoserGetsDuplicatePredictionError ==
    [][\A c \in Procs :
        (pc[c] = "cp_insert" /\ pc'[c] = "idle")
            => res'[c].outcome = "DuplicatePredictionError"
      ]_vars

\* the match as stored accepts predictions: pending or postponed, unlocked
Predictable(doc) ==
    doc.status \in {"pending", "postponed"} /\ doc.predictions_locked = FALSE

\* C7: create_prediction inserts only when the user is active and the match
\* is predictable; a call that finds the user inactive or the match not
\* predictable (a live match in particular) fails with
\* PredictionNotAllowedError and inserts nothing.
C7_CreateOnlyWhenPredictable ==
    [][\A c \in Procs :
        /\ (create_prediction_insert(c) /\ preds' # preds) =>
                (users[loc[c].u].is_active /\ Predictable(matches[loc[c].m]))
        /\ \A u \in UserIds, m \in MatchIds, h, a \in Scores :
                (create_prediction(c, u, m, h, a) /\ ~users[u].is_active) =>
                    (/\ res'[c].outcome = "PredictionNotAllowedError"
                     /\ preds' = preds)
        /\ (create_prediction_match(c) /\ ~Predictable(matches[loc[c].m])) =>
                (/\ res'[c].outcome = "PredictionNotAllowedError"
                 /\ preds' = preds)
      ]_vars

\* C8: once a match is finished or cancelled, no sequence of lifecycle calls
\* (start, finish, cancel, postpone, reschedule, update, lock, unlock,
\* auto-lock), each run to completion, changes its status.
C8_TerminalStatusStays ==
    [][\A m \in MatchIds :
        matches[m].status \in {"finished", "cancelled"}
            => matches'[m].status = matches[m].status
      ]_vars

\* a reschedule of a cancelled match got as far as update_match and was
\* rejected there
C8_Witness ==
    /\ matches[1].status = "cancelled"
    /\ res[1] = Result("reschedule_match", "InvalidMatchStateError", None)

\* the sign of a goal difference: the outcome category as the rules state it
Sign(x) == IF x > 0 THEN 1 ELSE IF x < 0 THEN -1 ELSE 0

\* C9: calculate_points returns 3 for the exact pair; otherwise 2 when the
\* outcome category and the goal difference both match; otherwise 1 when only
\* the category matches; otherwise 0; the result is always one of 0..3.
C9_PointsByPrecedence ==
    pout # None =>
        LET exact == pin[1] = pin[3] /\ pin[2] = pin[4]
            category == Sign(pin[1] - pin[2]) = Sign(pin[3] - pin[4])
            difference == pin[1] - pin[2] = pin[3] - pin[4]
        IN  /\ pout \in 0..3
            /\ exact => pout = 3
            /\ (~exact /\ category /\ difference) => pout = 2
            /\ (~exact /\ category /\ ~difference) => pout = 1
            /\ ~category => pout = 0

\* predicted 2-1 against actual 3-0 has been scored: outcome only
C9_Witness == pin = <<2, 1, 3, 0>> /\ pout = 1

\* C10: once a prediction is scored, no step of any operation changes it:
\* predicted scores, points, rationale, actual scores, scored_at stay, and
\* is_scored stays true.
C10_ScoredIsImmutable ==
    [][\A p \in PredIds :
        (preds[p].st = "live" /\ preds[p].is_scored) => preds'[p] = preds[p]
      ]_vars

\* C11: start_match on a pending or postponed match sets status live and
\* predictions_locked = true; on a match in any other status it fails with
\* InvalidMatchStateError and leaves the match unchanged.
C11_StartOnlyFromPendingOrPostponed ==
    [][\A c \in Procs :
        /\ \A m \in MatchIds :
            start_match(c, m) =>
                IF matches[m].status \in {"pending", "postponed"}
                THEN pc'[c] = "start_write"
                ELSE /\ res'[c] = Result("start_match",
                                         "InvalidMatchStateError", None)
                     /\ matches' = matches
        /\ start_match_write(c) =>
                /\ matches'[loc[c].m].status = "live"
                /\ matches'[loc[c].m].predictions_locked = TRUE
      ]_vars

\* C12: finish_match on a pending, live or postponed match sets status
\* finished, stores both scores and finished_at and sets predictions_locked =
\* true; on a finished or cancelled match it fails with
\* InvalidMatchStateError and leaves the match and every prediction unchanged.
C12_FinishOnlyFromOpenStatus ==
    [][\A c \in Procs :
        /\ \A m \in MatchIds, h, a \in Scores :
            finish_match(c, m, h, a) =>
                IF matches[m].status \in {"pending", "live", "postponed"}
                THEN pc'[c] = "finish_set"
                ELSE /\ res'[c] = Result("finish_match",
                                         "InvalidMatchStateError", None)
                     /\ matches' = matches
                     /\ preds' = preds
        /\ finish_match_set_result(c) =>
                /\ matches'[loc[c].m].status = "finished"
                /\ matches'[loc[c].m].home_score = loc[c].h
                /\ matches'[loc[c].m].away_score = loc[c].a
                /\ matches'[loc[c].m].finished_at # None
                /\ matches'[loc[c].m].predictions_locked = TRUE
      ]_vars

\* C13: cancel_match on a match in any non-finished status sets status
\* cancelled, sets cancelled_at and sets predictions_locked = true; on a
\* finished match it fails with InvalidMatchStateError and leaves the match
\* unchanged.
C13_CancelUnlessFinished ==
    [][\A c \in Procs :
        /\ \A m \in MatchIds :
            cancel_match(c, m) =>
                IF matches[m].status # "finished"
                THEN pc'[c] = "cancel_write"
                ELSE /\ res'[c] = Result("cancel_match",
                                         "InvalidMatchStateError", None)
                     /\ matches' = matches
        /\ cancel_match_write(c) =>
                /\ matches'[loc[c].m].status = "cancelled"
                /\ matches'[loc[c].m].cancelled_at # None
                /\ matches'[loc[c].m].predictions_locked = TRUE
      ]_vars

\* C14: postpone_match on a pending, live or postponed match sets status
\* postponed; on a finished or cancelled match it fails with
\* InvalidMatchStateError and leaves the match unchanged.
C14_PostponeOnlyFromOpenStatus ==
    [][\A c \in Procs :
        /\ \A m \in MatchIds, t \in {None} \cup TimeInputs :
            postpone_match(c, m, t) =>
                IF matches[m].status \in {"pending", "live", "postponed"}
                THEN pc'[c] = "postpone_write"
                ELSE /\ res'[c] = Result("postpone_match",
                                         "InvalidMatchStateError", None)
                     /\ matches' = matches
        /\ postpone_match_write(c) =>
                matches'[loc[c].m].status = "postponed"
      ]_vars

\* C15: postpone_match without a new scheduled time leaves predictions_locked
\* as it was; with a new scheduled time that lies in the future it sets
\* predictions_locked = false, so that the match (a previously live, locked
\* one included) is predictable again.
C15_PostponeLockEffect ==
    [][\A c \in Procs :
        postpone_match_write(c) =>
            LET m == loc[c].m
                t == loc[c].t
            IN  /\ t = None =>
                    matches'[m].predictions_locked
                        = matches[m].predictions_locked
                /\ (t # None /\ t > now) =>
                    /\ matches'[m].predictions_locked = FALSE
                    /\ is_predictable(ViewMatch(matches'[m]))
      ]_vars

\* a started (live, locked) match was postponed to a future time and is
\* unlocked
C15_Witness ==
    /\ matches[1].status = "postponed"
    /\ matches[1].started_at # None
    /\ matches[1].scheduled_at > now
    /\ matches[1].predictions_locked = FALSE
    /\ res[1] = Result("postpone_match", "ok", None)

\* C16: in every reachable state a match is finished if and only if
\* home_score, away_score and finished_at are all present.
C16_FinishedIffResult ==
    \A m \in MatchIds :
        matches[m].status = "finished"
            <=> (/\ matches[m].home_score # None
                 /\ matches[m].away_score # None
                 /\ matches[m].finished_at # None)

\* C17: in every reachable state a live match has predictions_locked = true.
C17_LiveIsLocked ==
    \A m \in MatchIds :
        matches[m].status = "live" => matches[m].predictions_locked = TRUE

\* a step, before the insert, of a create_prediction call of client c whose
\* (user, match) pair already has a prediction
CreateOnPredicted(c) ==
    /\ pc'[c] # pc[c] \/ res'[c] # res[c]
    /\ \/ /\ Idle(c)
          /\ \E u \in UserIds, m \in MatchIds :
                /\ HasPrediction(u, m)
                /\ \E h, a \in Scores : create_prediction(c, u, m, h, a)
       \/ /\ HasPrediction(loc[c].u, loc[c].m)
          /\ \/ create_prediction_match(c)
             \/ create_prediction_existing(c)
             \/ create_prediction_insert(c)

IsRun(s, i, j, v) == \A k \in i..j : s[k] = v

\* the length of the longest run of v in s (0 when there is none)
LongestRun(s, v) ==
    LET lens == {0} \cup {j - i + 1 : i \in 1..Len(s), j \in 1..Len(s)}
        ok(n) == n = 0 \/ \E i \in 1..(Len(s) - n + 1) : IsRun(s, i, i + n - 1, v)
    IN  CHOOSE n \in lens : ok(n) /\ \A k \in lens : ok(k) => k <= n

\* the length of the run of v that ends s (0 when s is empty or ends otherwise)
TrailingRun(s, v) ==
    CHOOSE n \in 0..Len(s) :
        /\ IsRun(s, Len(s) - n + 1, Len(s), v)
        /\ (n < Len(s) => s[Len(s) - n] # v)

\* C19: for every chronologically ordered list of hit/miss results the streak
\* computation returns best_streak = the longest run of hits, worst_streak =
\* the longest run of misses and current_streak = the trailing run of hits
\* (0 when the list is empty or ends with a miss); for [hit, hit, miss, hit]
\* it returns current 1, best 2, worst 1.
C19_StreaksAreRuns ==
    pout # <<>> =>
        /\ pout = <<TrailingRun(pin, 1), LongestRun(pin, 1), LongestRun(pin, 0)>>
        /\ pin = <<1, 1, 0, 1>> => pout = <<1, 2, 1>>

\* [hit, hit, miss, hit] has been evaluated
C19_Witness == pin = <<1, 1, 0, 1>> /\ pout = <<1, 2, 1>>

\* the scored predictions of user u inside the window of a period at time t:
\* every one for all_time (and season), otherwise those scored between the
\* start of the current day, week, month or year and t (every tick starts a
\* day, every second one a week; time 1 is the first of January)
ScoredInWindow(u, period, t) ==
    {p \in PredIds :
        /\ preds[p].st = "live" /\ preds[p].is_scored /\ preds[p].user = u
        /\ period \in {"day", "week", "month", "year"} =>
            /\ preds[p].scored_at <= t
            /\ ~\E k \in 0..t :
                /\ preds[p].scored_at < k
                /\ CASE period = "day" -> TRUE
                     [] period = "week" -> k % WeekTicks = 0
                     [] period = "month" -> k % MonthTicks = 1
                     [] period = "year" -> k % YearTicks = 1}

\* C20: for every metric and period, no user with fewer than min_predictions
\* scored predictions inside the period window appears among the leaderboard
\* entries, whatever that user's total points.
C20_BelowThresholdExcluded ==
    [][\A c \in Procs :
        (pc[c] = "idle" /\ pc'[c] = "lb_count") =>
            \A i \in DOMAIN loc'[c].entries :
                Cardinality(ScoredInWindow(loc'[c].entries[i].user_id,
                                           loc'[c].args.period, now))
                    >= loc'[c].args.min_predictions
      ]_vars

\* a leaderboard with a threshold came back empty although a user has a
\* scored prediction inside the window, worth 3 points
C20_Witness ==
    /\ res[1].op = "get_leaderboard"
    /\ res[1].entries = <<>>
    /\ res[1].count >= 1
    /\ \E p \in PredIds :
        preds[p].st = "live" /\ preds[p].is_scored /\ preds[p].points = 3

\* the sort key of each metric: points -> total points, accuracy -> accuracy
\* percentage, exact_scores -> exact-score count, efficiency -> accuracy
\* percentage; streak has no key of its own and ranks by total points
MetricKey(leaderboard_type) ==
    CASE leaderboard_type = "points" -> "total_points"
      [] leaderboard_type = "accuracy" -> "accuracy_percent"
      [] leaderboard_type = "exact_scores" -> "exact_scores"
      [] leaderboard_type = "efficiency" -> "accuracy_percent"
      [] leaderboard_type = "streak" -> "total_points"

QualifiedUsers(period, min_predictions, t) ==
    {u \in UserIds :
        LET n == Cardinality(ScoredInWindow(u, period, t))
        IN  n >= 1 /\ n >= min_predictions}

\* C22: the total_participants value get_leaderboard returns equals the
\* number of qualified users, that is of the users with at least
\* min_predictions scored predictions inside the period window.
C22_TotalCountsQualified ==
    [][\A c \in Procs :
        (pc[c] = "lb_count" /\ pc'[c] = "idle") =>
            res'[c].count
                = Cardinality(QualifiedUsers(loc[c].args.period,
                                             loc[c].args.min_predictions, now))
      ]_vars

\* C23: with scored_predictions = 0 the accuracy percentage, the average
\* points per prediction and the points efficiency of a user's statistics are
\* all 0 and no division error is raised; a user's average_points is 0 when
\* total_predictions = 0.
C23_ZeroDenominatorGivesZero ==
    pout # <<>> =>
        /\ pin.scored_predictions = 0 =>
            /\ pout.accuracy_percent = <<"ok", 0>>
            /\ pout.avg_points_per_prediction = <<"ok", 0>>
            /\ pout.points_efficiency = <<"ok", 0>>
        /\ pin.total_predictions = 0 =>
            /\ pout.average_points[1] = "ok"
            /\ pout.average_points[2] = 0

\* the ratios of statistics without any scored prediction have been read
C23_Witness ==
    /\ pout # <<>>
    /\ pin.scored_predictions = 0
    /\ pin.total_predictions = 0
    /\ pout.points_efficiency = <<"ok", 0>>

C25_TrendByMeanDifference ==
    pout # "none" =>
        LET n == Len(pin)
            k == IF n >= 3 THEN 3 ELSE n
            last == SumSeq(SubSeq(pin, n - k + 1, n))
            first == SumSeq(SubSeq(pin, 1, k))
        IN  IF n < 2 THEN pout = "stable"
            ELSE IF last - first > 5 * k THEN pout = "improving"
            ELSE IF last - first < (0 - 5) * k THEN pout = "declining"
            ELSE pout = "stable"

\* C26: auto_lock_starting_matches sets predictions_locked = true on exactly
\* the matches that are pending or postponed, unlocked and scheduled at or
\* before now + minutes_before, changes no match's status and returns their
\* number; a sweep repeated immediately afterwards locks 0 matches and leaves
\* every match unchanged.
C26_SweepLocksDueMatchesOnce ==
    [][\A c \in Procs :
        (/\ pc[c] = "idle" /\ pc'[c] = "idle"
         /\ res'[c] # res[c] \/ matches' # matches
         /\ res'[c].op = "auto_lock_starting_matches") =>
            LET due == {m \in DOMAIN matches :
                            /\ matches[m].status \in {"pending", "postponed"}
                            /\ ~matches[m].predictions_locked
                            /\ matches[m].scheduled_at
                                    <= now + res'[c].args.minutes_before}
            IN  /\ \A m \in due :
                        matches'[m]
                            = [matches[m] EXCEPT !.predictions_locked = TRUE]
                /\ \A m \in DOMAIN matches \ due : matches'[m] = matches[m]
                /\ res'[c].count = Cardinality(due)
                /\ res'[c].args.repeat # None =>
                        (res'[c].count = 0 /\ matches' = matches)
      ]_vars

\* a sweep that locked at least one match was repeated at once and locked
\* none
C26_Witness ==
    /\ res[1].op = "auto_lock_starting_matches"
    /\ res[1].args.repeat # None
    /\ res[1].args.repeat >= 1
    /\ res[1].count = 0

NotFoundErrors ==
    {"MatchNotFoundError", "UserNotFoundError", "PredictionNotFoundError"}

\* a step of client c that looks up an identifier which does not resolve:
\* a match or a user that does not exist, a prediction that was deleted
MissingLookup(c) ==
    /\ pc'[c] # pc[c] \/ res'[c] # res[c]
    /\ \/ /\ Idle(c)
          /\ \/ start_match(c, MissingId)
             \/ finish_match(c, MissingId, 0, 0)
             \/ cancel_match(c, MissingId)
             \/ postpone_match(c, MissingId, None)
             \/ lock_predictions(c, MissingId)
             \/ unlock_predictions(c, MissingId)
             \/ update_match(c, MissingId,
                             [status |-> "finished", home_score |-> 1,
                              away_score |-> 0])
             \/ reschedule_match(c, MissingId, MaxTime + 1)
             \/ score_match_predictions(c, MissingId)
             \/ \E m \in MatchIds \cup {MissingId} :
                    create_prediction(c, MissingId, m, 0, 0)
             \/ deactivate_user(c, MissingId)
             \/ activate_user(c, MissingId)
             \/ \E p \in PredIds :
                    /\ preds[p].st = "deleted"
                    /\ \/ update_prediction(c, p, 1, 1, 0)
                       \/ delete_prediction(c, p, 1)
       \/ /\ pc[c] = "cp_match"
          /\ loc[c].m = MissingId
          /\ create_prediction_match(c)

\* C27: every operation given a match, user or prediction identifier that
\* does not resolve fails with a NotFound error (MatchNotFoundError,
\* UserNotFoundError or PredictionNotFoundError) surfaced to the caller, and
\* changes no state.
C27_MissingIdRaisesNotFound ==
    [][\A c \in Procs :
        MissingLookup(c) =>
            /\ pc'[c] = "idle"
            /\ res'[c].outcome \in NotFoundErrors
            /\ matches' = matches /\ preds' = preds /\ users' = users
      ]_vars

\* C28: start_match sets started_at only when it is absent: a match that was
\* started, then postponed, then started again keeps the started_at of its
\* first start.
C28_StartKeepsFirstStartedAt ==
    [][\A c \in Procs :
        (/\ pc[c] = "start_write" /\ pc'[c] = "idle"
         /\ matches[loc[c].m].started_at # None) =>
            matches'[loc[c].m].started_at = matches[loc[c].m].started_at
      ]_vars

\* C29: in every reachable state, also after interleaved finish_match calls
\* that carry different results, every scored prediction has
\* actual_home_score and actual_away_score equal to the home_score and
\* away_score stored on its match, and points equal to calculate_points of
\* its predicted pair against that score.
C29_ScoredAgainstStoredResult ==
    \A p \in PredIds :
        (preds[p].st = "live" /\ preds[p].is_scored) =>
            LET m == matches[preds[p].match]
            IN  /\ preds[p].actual_home_score = m.home_score
                /\ preds[p].actual_away_score = m.away_score
                /\ preds[p].points
                        = calculate_points(preds[p].predicted_home_score,
                                           preds[p].predicted_away_score,
                                           m.home_score, m.away_score)

\* C30: under any repetition or interleaving of finish_match,
\* score_match_predictions and score_all_pending_matches calls the points of
\* a scored prediction are added to its owner's total_points at most once: a
\* scoring pass adds points only for the predictions it newly scored itself.
C30_PointsAddedOnlyByScorer ==
    [][\A c \in Procs :
        (pc[c] = "sm_inc" /\ users' # users) =>
            NextDoc(loc[c].cur).id \in loc[c].scored
      ]_vars

\* C31: when start_match, cancel_match or postpone_match interleaves with a
\* finish_match on the same match, the match is never left in a non-finished
\* status once finish_match has returned success.
C31_FinishedStaysFinished ==
    \A m \in fin_ok : matches[m].status = "finished"

\* C32: no interleaving of create_prediction with start_match, finish_match,
\* cancel_match, lock_predictions or auto_lock_starting_matches on the same
\* match inserts a prediction after that match has become locked or has left
\* the pending/postponed statuses.
C32_NoInsertOnClosedMatch ==
    [][\A c \in Procs :
        (pc[c] = "cp_insert" /\ preds' # preds) =>
            Predictable(matches[loc[c].m])
      ]_vars

\* C33: update_prediction changes a prediction's predicted scores only when
\* the caller owns the prediction, the prediction is unscored and its match
\* is still predictable (pending or postponed, not locked); in every other
\* case it fails and the prediction is unchanged.
C33_UpdateOnlyWhilePredictable ==
    [][\A c \in Procs :
        (pc[c] = "up_write" /\ pc'[c] = "idle") =>
            LET p == loc[c].p
                allowed == /\ preds[p].st = "live"
                           /\ preds[p].user = loc[c].u
                           /\ ~preds[p].is_scored
                           /\ Predictable(matches[preds[p].match])
            IN  /\ preds' # preds => allowed
                /\ ~allowed => (res'[c].outcome # "ok" /\ preds' = preds)
      ]_vars

\* C34: unlock_predictions sets predictions_locked = false only for a match
\* whose status is pending or postponed; for a live, finished or cancelled
\* match it fails with InvalidMatchStateError and leaves predictions_locked
\* unchanged.
C34_UnlockOnlyPendingOrPostponed ==
    [][\A c \in Procs :
        /\ \A m \in MatchIds :
            unlock_predictions(c, m) =>
                IF matches[m].status \in {"pending", "postponed"}
                THEN pc'[c] = "unlock_write"
                ELSE /\ res'[c] = Result("unlock_predictions",
                                         "InvalidMatchStateError", None)
                     /\ matches' = matches
        /\ (pc[c] = "unlock_write" /\ pc'[c] = "idle") =>
                /\ matches[loc[c].m].status \in {"pending", "postponed"}
                /\ matches'[loc[c].m].predictions_locked = FALSE
      ]_vars

\* C35: reschedule_match with a future time on a pending or postponed match
\* sets status pending, stores the new scheduled time and sets
\* predictions_locked = false; on a live, finished or cancelled match it
\* fails with InvalidMatchStateError and leaves the match unchanged.
C35_RescheduleReopens ==
    [][\A c \in Procs :
        /\ \A m \in MatchIds, t \in TimeInputs :
            (reschedule_match(c, m, t) /\ t > now) =>
                IF matches[m].status \in {"live", "finished"}
                THEN /\ res'[c] = Result("reschedule_match",
                                         "InvalidMatchStateError", None)
                     /\ matches' = matches
                ELSE pc'[c] = "update_get"
        /\ (pc[c] = "update_get" /\ pc'[c] # "update_get"
                /\ loc[c].upd.scheduled_at > now) =>
                IF matches[loc[c].m].status \in {"pending", "postponed"}
                THEN pc'[c] = "update_write"
                ELSE /\ res'[c] = Result("reschedule_match",
                                         "InvalidMatchStateError", None)
                     /\ matches' = matches
        /\ (pc[c] = "update_write" /\ loc[c].op = "reschedule_match"
                /\ pc'[c] = "idle") =>
                LET m == loc[c].m IN
                /\ res'[c] = Result("reschedule_match", "ok", None)
                /\ matches'[m].status = "pending"
                /\ matches'[m].scheduled_at = loc[c].upd.scheduled_at
                /\ matches'[m].predictions_locked = FALSE
      ]_vars

\* C36: after recalculate_stats for a user, that user's total_points equals
\* the sum of points over the user's scored predictions and total_predictions
\* equals the number of predictions the user has in the predictions
\* collection.
C36_RecalculatedMatchesCollection ==
    [][\A c \in Procs :
        (pc[c] = "rs_write" /\ pc'[c] = "idle") =>
            LET u == loc[c].u
                Q == {p \in PredIds : preds'[p].st = "live" /\ preds'[p].user = u}
            IN  /\ users'[u].total_points =
                        SumPoints({p \in Q : preds'[p].is_scored})
                /\ users'[u].total_predictions = Cardinality(Q)
      ]_vars

\* C37: whenever no operation is in progress, each match's total_predictions
\* counter equals the number of predictions that reference that match, after
\* any sequence of create_prediction, delete_prediction and delete_user (hard
\* delete) operations.
C37_MatchCounterIsExact ==
    (\A c \in Procs : pc[c] = "idle") =>
        \A m \in MatchIds :
            matches[m].total_predictions =
                Cardinality({p \in PredIds : /\ preds[p].st = "live"
                                              /\ preds[p].match = m})

\* C38: a user's denormalized total_predictions and total_points are never
\* negative after any sequence of create_prediction, delete_prediction,
\* finish_match, score_match_predictions and recalculate_stats operations.
C38_CountersNeverNegative ==
    (\A c \in Procs : pc[c] = "idle") =>
        \A u \in DOMAIN users :
            users[u].total_predictions >= 0 /\ users[u].total_points >= 0

\* C39: for every user and every reachable state of the prediction log, the
\* statistics returned by get_user_stats satisfy exact_scores + correct_diffs
\* + correct_outcomes + incorrect = scored_predictions, scored_predictions +
\* pending_predictions = total_predictions, and total_points =
\* 3*exact_scores + 2*correct_diffs + correct_outcomes.
C39_StatsIdentities ==
    [][\A c \in Procs :
        /\ (pc[c] = "us_aggregate" /\ pc'[c] = "idle") =>
            LET s == res'[c].entries IN
            /\ s.exact_scores + s.correct_diffs + s.correct_outcomes
                    + s.incorrect = s.scored_predictions
            /\ s.scored_predictions + s.pending_predictions
                    = s.total_predictions
            /\ s.total_points = 3 * s.exact_scores + 2 * s.correct_diffs
                                    + s.correct_outcomes
        /\ (pc[c] = "idle" /\ res'[c].op = "prediction_get_user_stats") =>
            LET s == res'[c].entries IN
            /\ s.exact_scores + s.correct_differences + s.correct_outcomes
                    + s.incorrect = s.scored_predictions
            /\ s.scored_predictions <= s.total_predictions
            /\ s.total_points = 3 * s.exact_scores + 2 * s.correct_differences
                                    + s.correct_outcomes
      ]_vars

\* a user with an exact score, a correct difference and a pending prediction
\* was asked for
C39_Witness ==
    /\ res[1].op = "get_user_stats"
    /\ res[1].outcome = "ok"
    /\ res[1].entries.total_predictions = 3
    /\ res[1].entries.pending_predictions = 1
    /\ res[1].entries.exact_scores = 1
    /\ res[1].entries.correct_diffs = 1
    /\ res[1].entries.total_points = 5

\* C40: for a trend with exactly 2 or exactly 3 daily buckets trend_direction
\* is "stable" for every combination of bucket accuracies; "improving" or
\* "declining" can be returned only when at least 4 buckets exist.
C40_FewBucketsAreStable ==
    pout # "none" =>
        /\ Len(pin) \in {2, 3} => pout = "stable"
        /\ pout \in {"improving", "declining"} => Len(pin) >= 4

\* three buckets of rising accuracy were classified, as stable
C40_Witness == pin = <<0, 85, 100>> /\ pout = "stable"

====
